---- MODULE Spec2Model ----
(***************************************************************************)
(* A model of the generated protobuf bindings of ommx.v1: the oneof of     *)
(* Function (function.pb.h), the repeated fields and the optional Linear   *)
(* of Quadratic (quadratic.pb.h), and Instance / Instance.Description with *)
(* their wire encoding (instance.pb.cc).                                   *)
(***************************************************************************)
EXTENDS Integers, Sequences, FiniteSets, TLC

\* ------------------------------------------------------------------------
\* Bounds of the model
\* ------------------------------------------------------------------------
MaxObj == 2
MaxContent == 1
MaxDouble == 1
MaxLen == 2
MaxList == 2
MaxWeight == 3
MaxBody == 4

\* ------------------------------------------------------------------------
\* Program constants
\* ------------------------------------------------------------------------
FUNCTION_NOT_SET == 0
kConstant == 1
kLinear == 2
kQuadratic == 3
kPolynomial == 4

\* nullptr, and the value a pointer or a double read out of bytes of the
\* other kind yields
NULL == 0
Wild == -1

VARIABLES func, heap, arena, last, quad, msg, peer, wire

vars == <<func, heap, arena, last, quad, msg, peer, wire>>

Objs == 1..MaxObj
Doubles == 0..MaxDouble
Contents == 0..MaxContent
MessageCases == {kLinear, kQuadratic, kPolynomial}

\* ------------------------------------------------------------------------
\* The heap of Linear / Quadratic / Polynomial sub-messages.
\*   type    : 0 while the cell is unallocated, else the case of its class
\*   owner   : "none"    unallocated
\*             "msg"     held by the Function, which is to delete it
\*             "arena"   held by the Function, memory of the arena
\*             "caller"  the caller holds the pointer and answers for it
\*             "deleted" delete ran on it
\*             "dropped" memory of the arena that nothing refers to any more
\*   content : 0 is the default (empty) message
\*   deletes : how many times delete ran on the cell
\* ------------------------------------------------------------------------
FreeCell == [type |-> 0, owner |-> "none", content |-> 0, deletes |-> 0]

Unallocated(h) == {o \in Objs : h[o].type = 0}

\* Memory that was freed once, or that only the arena still knows, is given
\* out again by later allocations.
Reclaim(h) ==
  [o \in Objs |->
     IF (h[o].owner = "deleted" /\ h[o].deletes = 1) \/ h[o].owner = "dropped"
       THEN FreeCell
       ELSE h[o]]

NewObj(h) == CHOOSE o \in Unallocated(h) : \A p \in Unallocated(h) : o <= p

\* Message::DefaultConstruct<T>(GetArena())
DefaultConstruct(h, type) ==
  [h EXCEPT ![NewObj(h)] = [type |-> type,
                            owner |-> IF arena THEN "arena" ELSE "msg",
                            content |-> 0, deletes |-> 0]]

\* internal::DuplicateIfNonNull: a heap copy handed to the caller
DuplicateIfNonNull(h, p) ==
  IF p \in Objs
    THEN [h EXCEPT ![NewObj(h)] = [type |-> h[p].type, owner |-> "caller",
                                   content |-> h[p].content, deletes |-> 0]]
    ELSE h

\* operator delete on a pointer (delete nullptr does nothing)
Delete(h, p) ==
  IF p \in Objs
    THEN [h EXCEPT ![p].owner = "deleted", ![p].content = 0,
                   ![p].deletes = IF @ < 2 THEN @ + 1 ELSE @]
    ELSE h

\* an arena-held message the Function lets go of stays with the arena
Abandon(h, p) ==
  IF p \in Objs
    THEN [h EXCEPT ![p].owner = "dropped", ![p].content = 0]
    ELSE h

\* the caller gets to hold p
HandOut(h, p) == IF p \in Objs THEN [h EXCEPT ![p].owner = "caller"] ELSE h

\* the Function gets to hold p
TakeIn(h, p) ==
  IF p \in Objs
    THEN [h EXCEPT ![p].owner = IF arena THEN "arena" ELSE "msg"]
    ELSE h

\* ------------------------------------------------------------------------
\* Function::Impl_::FunctionUnion : one storage shared by a double and three
\* pointers.  All-zero bytes read as 0.0 and as nullptr.
\* ------------------------------------------------------------------------
Zero == [kind |-> "zero", val |-> 0]

MkDouble(v) == IF v = 0 THEN Zero ELSE [kind |-> "double", val |-> v]

MkPtr(p) == IF p = NULL THEN Zero ELSE [kind |-> "ptr", val |-> p]

AsDouble(u) == IF u.kind = "ptr" THEN Wild ELSE u.val

AsPtr(u) == IF u.kind = "double" THEN Wild ELSE u.val

\* the state after Function(Arena*)
NewFunction == [oneof_case |-> FUNCTION_NOT_SET, function_ |-> Zero]

\* the Function together with the heap its handlers act on
Self == [oneof_case |-> func.oneof_case, function_ |-> func.function_,
         heap |-> Reclaim(heap)]

function_case(s) == s.oneof_case

has_function(s) == function_case(s) # FUNCTION_NOT_SET

clear_has_function(s) == [s EXCEPT !.oneof_case = FUNCTION_NOT_SET]

set_has_constant(s) == [s EXCEPT !.oneof_case = kConstant]

set_has_linear(s) == [s EXCEPT !.oneof_case = kLinear]

set_has_quadratic(s) == [s EXCEPT !.oneof_case = kQuadratic]

\* a discriminant that is not the field number
set_has_polynomial_off_by_one(s) == [s EXCEPT !.oneof_case = kPolynomial + 1]

set_has_polynomial(s) == [s EXCEPT !.oneof_case = kPolynomial]

set_has(s, k) ==
  IF k = kLinear THEN set_has_linear(s)
  ELSE IF k = kQuadratic THEN set_has_quadratic(s)
  ELSE set_has_polynomial(s)

has_constant(s) == function_case(s) = kConstant

has_linear(s) == function_case(s) = kLinear

has_quadratic(s) == function_case(s) = kQuadratic

has_polynomial(s) == function_case(s) = kPolynomial

\* Function::clear_function(): frees the held message when the Function is
\* not on an arena and resets the discriminant; the storage bytes stay.
clear_function(s) ==
  LET h == IF function_case(s) \in MessageCases
             THEN IF arena
                    THEN Abandon(s.heap, AsPtr(s.function_))
                    ELSE Delete(s.heap, AsPtr(s.function_))
             ELSE s.heap
  IN [s EXCEPT !.heap = h, !.oneof_case = FUNCTION_NOT_SET]

\* ------------------------------------------------------------------------
\* Function: double constant = 1
\* ------------------------------------------------------------------------
\* the storage is zeroed and the discriminant reset whatever variant is held
clear_constant_unconditional(s) ==
  clear_has_function([s EXCEPT !.function_ = MkDouble(0)])

clear_constant(s) ==
  IF function_case(s) = kConstant
    THEN clear_has_function([s EXCEPT !.function_ = MkDouble(0)])
    ELSE s

\* the previous variant is not cleared
set_constant_without_clear(s, value) ==
  [set_has_constant(s) EXCEPT !.function_ = MkDouble(value)]

set_constant(s, value) ==
  LET s1 == IF function_case(s) # kConstant
              THEN set_has_constant(clear_function(s))
              ELSE s
  IN [s1 EXCEPT !.function_ = MkDouble(value)]

\* the value read, and whether the union storage was read to get it
internal_constant(s) ==
  IF function_case(s) = kConstant
    THEN [val |-> AsDouble(s.function_), read |-> TRUE]
    ELSE [val |-> 0, read |-> FALSE]

constant(s) == internal_constant(s).val

\* ------------------------------------------------------------------------
\* Function: the three message variants.  The generated code of linear,
\* quadratic and polynomial differs in the case constant only.
\* ------------------------------------------------------------------------

\* *p for a pointer p taken out of the union: the content of the message,
\* Wild when p is not a live message of the class expected
Deref(s, p, k) ==
  IF p \in Objs /\ s.heap[p].type = k /\ s.heap[p].owner # "deleted"
    THEN s.heap[p].content
    ELSE Wild

\* the test of a singular message field (storage non-null) in place of the
\* test of the discriminant
internal_message_by_pointer(s, k) ==
  IF AsPtr(s.function_) # NULL
    THEN [val |-> Deref(s, AsPtr(s.function_), k), read |-> TRUE]
    ELSE [val |-> 0, read |-> FALSE]

\* _internal_X(): the held message, or the class's default instance
internal_message(s, k) ==
  IF function_case(s) = k
    THEN [val |-> Deref(s, AsPtr(s.function_), k), read |-> TRUE]
    ELSE [val |-> 0, read |-> FALSE]

internal_linear(s) == internal_message(s, kLinear)

internal_quadratic(s) == internal_message(s, kQuadratic)

internal_polynomial(s) == internal_message(s, kPolynomial)

linear(s) == internal_linear(s).val

quadratic(s) == internal_quadratic(s).val

polynomial(s) == internal_polynomial(s).val

\* on an arena too the stored pointer itself is returned
release_message_without_duplicate(s, k) ==
  IF function_case(s) = k
    THEN LET s1 == clear_has_function(s)
             temp == AsPtr(s1.function_)
         IN [s |-> [s1 EXCEPT !.function_ = MkPtr(NULL),
                              !.heap = HandOut(s1.heap, temp)],
             ret |-> temp]
    ELSE [s |-> s, ret |-> NULL]

\* release_X(): [s |-> the Function afterwards, ret |-> the pointer returned]
release_message(s, k) ==
  IF function_case(s) = k
    THEN LET s1 == clear_has_function(s)
             temp == AsPtr(s1.function_)
             h == IF arena
                    THEN Abandon(DuplicateIfNonNull(s1.heap, temp), temp)
                    ELSE HandOut(s1.heap, temp)
             ret == IF arena /\ temp \in Objs THEN NewObj(s1.heap) ELSE temp
         IN [s |-> [s1 EXCEPT !.function_ = MkPtr(NULL), !.heap = h],
             ret |-> ret]
    ELSE [s |-> s, ret |-> NULL]

release_linear(s) == release_message(s, kLinear)

release_quadratic(s) == release_message(s, kQuadratic)

release_polynomial(s) == release_message(s, kPolynomial)

\* unsafe_arena_release_X(): the stored pointer itself is returned
unsafe_arena_release_message(s, k) ==
  IF function_case(s) = k
    THEN LET s1 == clear_has_function(s)
             temp == AsPtr(s1.function_)
             h == HandOut(s1.heap, temp)
         IN [s |-> [s1 EXCEPT !.function_ = MkPtr(NULL), !.heap = h],
             ret |-> temp]
    ELSE [s |-> s, ret |-> NULL]

unsafe_arena_release_linear(s) == unsafe_arena_release_message(s, kLinear)

unsafe_arena_release_quadratic(s) == unsafe_arena_release_message(s, kQuadratic)

unsafe_arena_release_polynomial(s) == unsafe_arena_release_message(s, kPolynomial)

\* unsafe_arena_set_allocated_X(value): the Function takes the pointer given
unsafe_arena_set_allocated_message(s, k, value) ==
  LET s1 == clear_function(s)
  IN IF value # NULL
       THEN LET s2 == set_has(s1, k)
            IN [s2 EXCEPT !.function_ = MkPtr(value),
                          !.heap = TakeIn(s2.heap, value)]
       ELSE s1

unsafe_arena_set_allocated_linear(s, value) ==
  unsafe_arena_set_allocated_message(s, kLinear, value)

unsafe_arena_set_allocated_quadratic(s, value) ==
  unsafe_arena_set_allocated_message(s, kQuadratic, value)

unsafe_arena_set_allocated_polynomial(s, value) ==
  unsafe_arena_set_allocated_message(s, kPolynomial, value)

\* the discriminant is not set
internal_mutable_message_without_set_has(s, k) ==
  LET s1 == IF function_case(s) # k
              THEN LET s2 == clear_function(s)
                   IN [s2 EXCEPT !.function_ = MkPtr(NewObj(s2.heap)),
                                 !.heap = DefaultConstruct(s2.heap, k)]
              ELSE s
  IN [s |-> s1, ret |-> AsPtr(s1.function_)]

\* a message already held is cleared before it is handed out
internal_mutable_message_clearing(s, k) ==
  LET s1 == IF function_case(s) # k
              THEN LET s2 == set_has(clear_function(s), k)
                   IN [s2 EXCEPT !.function_ = MkPtr(NewObj(s2.heap)),
                                 !.heap = DefaultConstruct(s2.heap, k)]
              ELSE [s EXCEPT !.heap[AsPtr(s.function_)].content = 0]
  IN [s |-> s1, ret |-> AsPtr(s1.function_)]

\* _internal_mutable_X(): [s |-> the Function afterwards, ret |-> the pointer]
internal_mutable_message(s, k) ==
  LET s1 == IF function_case(s) # k
              THEN LET s2 == set_has(clear_function(s), k)
                   IN [s2 EXCEPT !.function_ = MkPtr(NewObj(s2.heap)),
                                 !.heap = DefaultConstruct(s2.heap, k)]
              ELSE s
  IN [s |-> s1, ret |-> AsPtr(s1.function_)]

internal_mutable_linear(s) == internal_mutable_message(s, kLinear)

internal_mutable_quadratic(s) == internal_mutable_message(s, kQuadratic)

internal_mutable_polynomial(s) == internal_mutable_message(s, kPolynomial)

mutable_linear(s) == internal_mutable_linear(s)

mutable_quadratic(s) == internal_mutable_quadratic(s)

mutable_polynomial(s) == internal_mutable_polynomial(s)

\* ------------------------------------------------------------------------
\* Quadratic: repeated uint64 rows = 1, repeated uint64 columns = 2,
\* repeated double values = 3, optional Linear linear = 4
\* ------------------------------------------------------------------------
\* two uint64 values are enough to tell the entries of a sequence apart
Uints == {0, 1}

\* the state after Quadratic(Arena*)
NewQuadratic ==
  [has_bits |-> 0, rows_ |-> <<>>, columns_ |-> <<>>, values_ |-> <<>>,
   linear_ |-> NULL]

\* RepeatedField<T>: Add, Set, Get (indices from 0), Clear, RemoveLast
RepeatedAdd(f, value) == Append(f, value)

RepeatedSet(f, index, value) == [f EXCEPT ![index + 1] = value]

RepeatedGet(f, index) == f[index + 1]

RepeatedClear(f) == <<>>

RepeatedRemoveLast(f) == SubSeq(f, 1, Len(f) - 1)

internal_rows(q) == q.rows_

internal_rows_size(q) == Len(internal_rows(q))

rows_size(q) == internal_rows_size(q)

\* every sequence is emptied
clear_rows_clears_all(q) ==
  [q EXCEPT !.rows_ = RepeatedClear(@), !.columns_ = RepeatedClear(@),
            !.values_ = RepeatedClear(@)]

clear_rows(q) == [q EXCEPT !.rows_ = RepeatedClear(@)]

rows(q, index) == RepeatedGet(internal_rows(q), index)

set_rows(q, index, value) == [q EXCEPT !.rows_ = RepeatedSet(@, index, value)]

\* the other sequences are padded with zeros to the new length
add_rows_keeping_shape(q, value) ==
  LET n == Len(q.rows_) + 1
      Pad(f) == [i \in 1..(IF Len(f) < n THEN n ELSE Len(f)) |->
                   IF i <= Len(f) THEN f[i] ELSE 0]
  IN [q EXCEPT !.rows_ = RepeatedAdd(@, value), !.columns_ = Pad(@),
               !.values_ = Pad(@)]

add_rows(q, value) == [q EXCEPT !.rows_ = RepeatedAdd(@, value)]

internal_columns(q) == q.columns_

internal_columns_size(q) == Len(internal_columns(q))

columns_size(q) == internal_columns_size(q)

clear_columns(q) == [q EXCEPT !.columns_ = RepeatedClear(@)]

columns(q, index) == RepeatedGet(internal_columns(q), index)

set_columns(q, index, value) ==
  [q EXCEPT !.columns_ = RepeatedSet(@, index, value)]

add_columns(q, value) == [q EXCEPT !.columns_ = RepeatedAdd(@, value)]

internal_values(q) == q.values_

internal_values_size(q) == Len(internal_values(q))

values_size(q) == internal_values_size(q)

clear_values(q) == [q EXCEPT !.values_ = RepeatedClear(@)]

values(q, index) == RepeatedGet(internal_values(q), index)

set_values(q, index, value) ==
  [q EXCEPT !.values_ = RepeatedSet(@, index, value)]

add_values(q, value) == [q EXCEPT !.values_ = RepeatedAdd(@, value)]

\* Quadratic::IsInitialized(): the message has no required fields
Quadratic_IsInitialized(q) == TRUE

\* ------------------------------------------------------------------------
\* The wire format: bytes, base-128 varints, tags, length-delimited fields
\* ------------------------------------------------------------------------
WIRETYPE_VARINT == 0
WIRETYPE_FIXED64 == 1
WIRETYPE_LENGTH_DELIMITED == 2
WIRETYPE_FIXED32 == 5

RECURSIVE Varint(_)
\* the bytes of a non-negative integer, low seven bits first
Varint(n) ==
  IF n < 128 THEN <<n>> ELSE <<(n % 128) + 128>> \o Varint(n \div 128)

RECURSIVE VarintSize(_)
VarintSize(n) == IF n < 128 THEN 1 ELSE 1 + VarintSize(n \div 128)

MakeTag(number, wt) == number * 8 + wt

Drop(b, n) == SubSeq(b, n + 1, Len(b))

Take(b, n) == SubSeq(b, 1, n)

\* the first four bytes of a varint hold its low 28 bits
VarintCap == 128 * 128 * 128 * 128

\* what byte number count + 1 of a varint adds to it; a varint of more than
\* 28 bits is read as its low 28 bits with a mark above them for every
\* later byte that is not zero
VarintPart(byte, mult, count) ==
  IF count < 4 THEN (byte % 128) * mult
  ELSE IF byte % 128 = 0 THEN 0 ELSE VarintCap

RECURSIVE ReadVarintFrom(_, _, _, _)
\* [ok, val, rest]: the varint at the front of b; not ok when b ends inside it
ReadVarintFrom(b, acc, mult, count) ==
  IF b = <<>> \/ count >= 10
    THEN [ok |-> FALSE, val |-> 0, rest |-> b]
    ELSE IF b[1] < 128
           THEN [ok |-> TRUE, val |-> acc + VarintPart(b[1], mult, count),
                 rest |-> Drop(b, 1)]
           ELSE ReadVarintFrom(Drop(b, 1),
                               acc + VarintPart(b[1], mult, count),
                               IF count < 3 THEN mult * 128 ELSE mult,
                               count + 1)

ReadVarint(b) == ReadVarintFrom(b, 0, 1, 0)

\* WireFormatLite::StringSize / LengthDelimitedSize
LengthDelimitedSize(n) == VarintSize(n) + n

StringSize(s) == LengthDelimitedSize(Len(s))

\* EpsCopyOutputStream::WriteString / WriteStringMaybeAliased
WriteString(number, s) ==
  Varint(MakeTag(number, WIRETYPE_LENGTH_DELIMITED)) \o Varint(Len(s)) \o s

\* WireFormatLite::InternalWriteMessage: the length written is the cached
\* size handed in, the bytes are those the message serializes to
InternalWriteMessage(number, bytes, cached_size) ==
  Varint(MakeTag(number, WIRETYPE_LENGTH_DELIMITED))
    \o Varint(cached_size) \o bytes

\* WireFormatLite::WriteEnumToArray, EnumSize (values of the model are >= 0)
WriteEnumToArray(number, value) ==
  Varint(MakeTag(number, WIRETYPE_VARINT)) \o Varint(value)

EnumSize(value) == VarintSize(value)

\* strings of the model hold ASCII bytes and the byte 0xFF, which no UTF-8
\* text contains
IsValidUtf8(s) == \A i \in 1..Len(s) : s[i] < 128

\* UnknownFieldSet: a sequence of [number, wt, val], val an integer for a
\* varint and bytes for a length-delimited field
UnknownField(number, wt, val) == [number |-> number, wt |-> wt, val |-> val]

SerializeUnknownField(u) ==
  Varint(MakeTag(u.number, u.wt)) \o
    (IF u.wt = WIRETYPE_VARINT THEN Varint(u.val)
     ELSE IF u.wt = WIRETYPE_LENGTH_DELIMITED THEN Varint(Len(u.val)) \o u.val
     ELSE u.val)

RECURSIVE InternalSerializeUnknownFieldsToArray(_)
InternalSerializeUnknownFieldsToArray(us) ==
  IF us = <<>> THEN <<>>
  ELSE SerializeUnknownField(us[1])
         \o InternalSerializeUnknownFieldsToArray(Drop(us, 1))

UnknownFieldSize(u) ==
  VarintSize(MakeTag(u.number, u.wt)) +
    (IF u.wt = WIRETYPE_VARINT THEN VarintSize(u.val)
     ELSE IF u.wt = WIRETYPE_LENGTH_DELIMITED
       THEN LengthDelimitedSize(Len(u.val))
     ELSE Len(u.val))

RECURSIVE ComputeUnknownFieldsSize(_)
ComputeUnknownFieldsSize(us) ==
  IF us = <<>> THEN 0
  ELSE UnknownFieldSize(us[1]) + ComputeUnknownFieldsSize(Drop(us, 1))

\* Message::MaybeComputeUnknownFieldsSize
MaybeComputeUnknownFieldsSize(total_size, us) ==
  IF us # <<>> THEN total_size + ComputeUnknownFieldsSize(us) ELSE total_size

\* has-bits
HasBit(bits, mask) == (bits \div mask) % 2 = 1

SetBit(bits, mask) == IF HasBit(bits, mask) THEN bits ELSE bits + mask

ClearBit(bits, mask) == IF HasBit(bits, mask) THEN bits - mask ELSE bits

\* bits | other, for masks 1, 2, 4
OrBits(bits, other) ==
  LET Or(mask) == IF HasBit(bits, mask) \/ HasBit(other, mask) THEN mask ELSE 0
  IN Or(1) + Or(2) + Or(4)

\* ------------------------------------------------------------------------
\* Instance.Description: optional string name = 1, optional string
\* description = 2, repeated string authors = 3, optional string
\* created_by = 4
\* ------------------------------------------------------------------------
NewDescription ==
  [has_bits |-> 0, authors_ |-> <<>>, name_ |-> <<>>, description_ |-> <<>>,
   created_by_ |-> <<>>, unknown |-> <<>>]

RECURSIVE SerializeAuthors_as_field_2(_)
\* the authors are written under the field number of description
SerializeAuthors_as_field_2(as) ==
  IF as = <<>> THEN <<>>
  ELSE WriteString(2, as[1]) \o SerializeAuthors_as_field_2(Drop(as, 1))

RECURSIVE SerializeAuthors(_)
SerializeAuthors(as) ==
  IF as = <<>> THEN <<>>
  ELSE WriteString(3, as[1]) \o SerializeAuthors(Drop(as, 1))

\* name is written whenever it is not empty, whatever its has-bit
Description_InternalSerialize_implicit_presence(d) ==
  (IF d.name_ # <<>> THEN WriteString(1, d.name_) ELSE <<>>)
  \o (IF HasBit(d.has_bits, 2) THEN WriteString(2, d.description_) ELSE <<>>)
  \o SerializeAuthors(d.authors_)
  \o (IF HasBit(d.has_bits, 4) THEN WriteString(4, d.created_by_) ELSE <<>>)
  \o (IF d.unknown # <<>>
        THEN InternalSerializeUnknownFieldsToArray(d.unknown)
        ELSE <<>>)

\* Instance_Description::_InternalSerialize
Description_InternalSerialize(d) ==
  (IF HasBit(d.has_bits, 1) THEN WriteString(1, d.name_) ELSE <<>>)
  \o (IF HasBit(d.has_bits, 2) THEN WriteString(2, d.description_) ELSE <<>>)
  \o SerializeAuthors(d.authors_)
  \o (IF HasBit(d.has_bits, 4) THEN WriteString(4, d.created_by_) ELSE <<>>)
  \o (IF d.unknown # <<>>
        THEN InternalSerializeUnknownFieldsToArray(d.unknown)
        ELSE <<>>)

RECURSIVE AuthorsSize(_)
AuthorsSize(as) ==
  IF as = <<>> THEN 0 ELSE StringSize(as[1]) + AuthorsSize(Drop(as, 1))

\* name is counted when it is not empty, whatever its has-bit
Description_ByteSizeLong_by_content(d) ==
  LET total_size ==
        1 * Len(d.authors_) + AuthorsSize(d.authors_)
        + (IF d.name_ # <<>> THEN 1 + StringSize(d.name_) ELSE 0)
        + (IF HasBit(d.has_bits, 2) THEN 1 + StringSize(d.description_) ELSE 0)
        + (IF HasBit(d.has_bits, 4) THEN 1 + StringSize(d.created_by_) ELSE 0)
  IN MaybeComputeUnknownFieldsSize(total_size, d.unknown)

\* Instance_Description::ByteSizeLong: the size, which is also cached
Description_ByteSizeLong(d) ==
  LET total_size ==
        1 * Len(d.authors_) + AuthorsSize(d.authors_)
        + (IF HasBit(d.has_bits, 1) THEN 1 + StringSize(d.name_) ELSE 0)
        + (IF HasBit(d.has_bits, 2) THEN 1 + StringSize(d.description_) ELSE 0)
        + (IF HasBit(d.has_bits, 4) THEN 1 + StringSize(d.created_by_) ELSE 0)
  IN MaybeComputeUnknownFieldsSize(total_size, d.unknown)

\* authors is emptied only when some has-bit is set
Description_Clear_authors_under_has_bits(d) ==
  [d EXCEPT !.authors_ = IF d.has_bits # 0 THEN <<>> ELSE @,
            !.name_ = IF HasBit(d.has_bits, 1) THEN <<>> ELSE @,
            !.description_ = IF HasBit(d.has_bits, 2) THEN <<>> ELSE @,
            !.created_by_ = IF HasBit(d.has_bits, 4) THEN <<>> ELSE @,
            !.has_bits = 0,
            !.unknown = <<>>]

\* Instance_Description::Clear
Description_Clear(d) ==
  [d EXCEPT !.authors_ = <<>>,
            !.name_ = IF HasBit(d.has_bits, 1) THEN <<>> ELSE @,
            !.description_ = IF HasBit(d.has_bits, 2) THEN <<>> ELSE @,
            !.created_by_ = IF HasBit(d.has_bits, 4) THEN <<>> ELSE @,
            !.has_bits = 0,
            !.unknown = <<>>]

\* Instance_Description::MergeImpl
Description_MergeImpl(to, from) ==
  [to EXCEPT !.authors_ = @ \o from.authors_,
             !.name_ = IF HasBit(from.has_bits, 1) THEN from.name_ ELSE @,
             !.description_ =
                IF HasBit(from.has_bits, 2) THEN from.description_ ELSE @,
             !.created_by_ =
                IF HasBit(from.has_bits, 4) THEN from.created_by_ ELSE @,
             !.has_bits = OrBits(@, from.has_bits),
             !.unknown = @ \o from.unknown]

\* Instance_Description(Arena*, const Instance_Description&)
Description_CopyConstruct(from) ==
  [has_bits |-> from.has_bits, authors_ |-> from.authors_,
   name_ |-> from.name_, description_ |-> from.description_,
   created_by_ |-> from.created_by_, unknown |-> from.unknown]

\* ------------------------------------------------------------------------
\* The messages an Instance holds whose classes are generated into other
\* files (Function, DecisionVariable, Constraint): a message is what it
\* serializes to, so merging two of them concatenates their encodings
\* ------------------------------------------------------------------------
\* a pointer to a message holds the message, or nothing
nullptr == [null |-> TRUE]

NewNested == [body |-> <<>>]

Nested_ByteSizeLong(n) == Len(n.body)

Nested_InternalSerialize(n) == n.body

Nested_Clear(n) == [n EXCEPT !.body = <<>>]

Nested_MergeFrom(to, from) == [to EXCEPT !.body = @ \o from.body]

Nested_CopyConstruct(from) == [body |-> from.body]

Nested_Parse(n, payload) == [n EXCEPT !.body = @ \o payload]

\* ------------------------------------------------------------------------
\* Instance: description = 1, decision_variables = 2, objective = 3,
\* constraints = 4, sense = 5
\* ------------------------------------------------------------------------
\* only the upper end of the range is tested
Instance_Sense_IsValid_upper_bound_only(value) == value <= 2

\* Instance_Sense_IsValid
Instance_Sense_IsValid(value) == 0 <= value /\ value <= 2

\* Instance::SharedCtor
NewInstance ==
  [has_bits |-> 0, decision_variables_ |-> <<>>, constraints_ |-> <<>>,
   description_ |-> nullptr, objective_ |-> nullptr,
   sense_ |-> 0, unknown |-> <<>>]

\* a message read through a pointer; a null pointer has no message behind it
DerefDescription(p) == IF p = nullptr THEN [NewDescription EXCEPT !.has_bits = Wild] ELSE p

DerefNested(p) == IF p = nullptr THEN [body |-> <<Wild>>] ELSE p

RECURSIVE NestedSizes(_)
\* the size each element caches when its ByteSizeLong runs
NestedSizes(ms) ==
  IF ms = <<>> THEN <<>>
  ELSE <<Nested_ByteSizeLong(ms[1])>> \o NestedSizes(Drop(ms, 1))

RECURSIVE SumMessageSize(_)
SumMessageSize(sizes) ==
  IF sizes = <<>> THEN 0
  ELSE LengthDelimitedSize(sizes[1]) + SumMessageSize(Drop(sizes, 1))

\* the sizes of the elements of both lists are not left cached
Instance_ByteSizeLong_without_caching_elements(m) ==
  LET dvs == NestedSizes(m.decision_variables_)
      cs == NestedSizes(m.constraints_)
      d == IF HasBit(m.has_bits, 1)
             THEN Description_ByteSizeLong(DerefDescription(m.description_))
             ELSE 0
      o == IF HasBit(m.has_bits, 2)
             THEN Nested_ByteSizeLong(DerefNested(m.objective_))
             ELSE 0
      total_size ==
        1 * Len(dvs) + SumMessageSize(dvs)
        + 1 * Len(cs) + SumMessageSize(cs)
        + (IF HasBit(m.has_bits, 1) THEN 1 + LengthDelimitedSize(d) ELSE 0)
        + (IF HasBit(m.has_bits, 2) THEN 1 + LengthDelimitedSize(o) ELSE 0)
        + (IF m.sense_ # 0 THEN 1 + EnumSize(m.sense_) ELSE 0)
      size == MaybeComputeUnknownFieldsSize(total_size, m.unknown)
  IN [size |-> size,
      cached |-> [self |-> size, description |-> d, objective |-> o,
                  decision_variables |-> [i \in 1..Len(dvs) |-> 0],
                  constraints |-> [i \in 1..Len(cs) |-> 0]]]

\* Instance::ByteSizeLong: the size, and the sizes it leaves cached in the
\* messages it has measured
Instance_ByteSizeLong(m) ==
  LET dvs == NestedSizes(m.decision_variables_)
      cs == NestedSizes(m.constraints_)
      d == IF HasBit(m.has_bits, 1)
             THEN Description_ByteSizeLong(DerefDescription(m.description_))
             ELSE 0
      o == IF HasBit(m.has_bits, 2)
             THEN Nested_ByteSizeLong(DerefNested(m.objective_))
             ELSE 0
      total_size ==
        1 * Len(dvs) + SumMessageSize(dvs)
        + 1 * Len(cs) + SumMessageSize(cs)
        + (IF HasBit(m.has_bits, 1) THEN 1 + LengthDelimitedSize(d) ELSE 0)
        + (IF HasBit(m.has_bits, 2) THEN 1 + LengthDelimitedSize(o) ELSE 0)
        + (IF m.sense_ # 0 THEN 1 + EnumSize(m.sense_) ELSE 0)
      size == MaybeComputeUnknownFieldsSize(total_size, m.unknown)
  IN [size |-> size,
      cached |-> [self |-> size, description |-> d, objective |-> o,
                  decision_variables |-> dvs, constraints |-> cs]]

RECURSIVE WriteMessages_last_first(_, _, _)
\* the elements are written from the last to the first
WriteMessages_last_first(number, ms, sizes) ==
  IF ms = <<>> THEN <<>>
  ELSE WriteMessages_last_first(number, Drop(ms, 1), Drop(sizes, 1))
         \o InternalWriteMessage(number, Nested_InternalSerialize(ms[1]),
                                 sizes[1])

RECURSIVE WriteMessages(_, _, _)
WriteMessages(number, ms, sizes) ==
  IF ms = <<>> THEN <<>>
  ELSE InternalWriteMessage(number, Nested_InternalSerialize(ms[1]), sizes[1])
         \o WriteMessages(number, Drop(ms, 1), Drop(sizes, 1))

\* an objective with nothing in it is left out
Instance_InternalSerialize_skipping_empty_objective(m, cached) ==
  (IF HasBit(m.has_bits, 1)
     THEN InternalWriteMessage(1,
            Description_InternalSerialize(DerefDescription(m.description_)),
            cached.description)
     ELSE <<>>)
  \o WriteMessages(2, m.decision_variables_, cached.decision_variables)
  \o (IF HasBit(m.has_bits, 2) /\ cached.objective # 0
        THEN InternalWriteMessage(3,
               Nested_InternalSerialize(DerefNested(m.objective_)),
               cached.objective)
        ELSE <<>>)
  \o WriteMessages(4, m.constraints_, cached.constraints)
  \o (IF m.sense_ # 0 THEN WriteEnumToArray(5, m.sense_) ELSE <<>>)
  \o (IF m.unknown # <<>>
        THEN InternalSerializeUnknownFieldsToArray(m.unknown)
        ELSE <<>>)

\* Instance::_InternalSerialize; cached holds the sizes GetCachedSize() gives
Instance_InternalSerialize(m, cached) ==
  (IF HasBit(m.has_bits, 1)
     THEN InternalWriteMessage(1,
            Description_InternalSerialize(DerefDescription(m.description_)),
            cached.description)
     ELSE <<>>)
  \o WriteMessages(2, m.decision_variables_, cached.decision_variables)
  \o (IF HasBit(m.has_bits, 2)
        THEN InternalWriteMessage(3,
               Nested_InternalSerialize(DerefNested(m.objective_)),
               cached.objective)
        ELSE <<>>)
  \o WriteMessages(4, m.constraints_, cached.constraints)
  \o (IF m.sense_ # 0 THEN WriteEnumToArray(5, m.sense_) ELSE <<>>)
  \o (IF m.unknown # <<>>
        THEN InternalSerializeUnknownFieldsToArray(m.unknown)
        ELSE <<>>)

\* MessageLite::SerializeToString: ByteSizeLong, then _InternalSerialize
SerializeToString(m) ==
  Instance_InternalSerialize(m, Instance_ByteSizeLong(m).cached)

\* sense is left as it was
Instance_Clear_keeping_sense(m) ==
  [m EXCEPT !.decision_variables_ = <<>>,
            !.constraints_ = <<>>,
            !.description_ =
               IF HasBit(m.has_bits, 1)
                 THEN Description_Clear(DerefDescription(@)) ELSE @,
            !.objective_ =
               IF HasBit(m.has_bits, 2)
                 THEN Nested_Clear(DerefNested(@)) ELSE @,
            !.has_bits = 0,
            !.unknown = <<>>]

\* Instance::Clear
Instance_Clear(m) ==
  [m EXCEPT !.decision_variables_ = <<>>,
            !.constraints_ = <<>>,
            !.description_ =
               IF HasBit(m.has_bits, 1)
                 THEN Description_Clear(DerefDescription(@)) ELSE @,
            !.objective_ =
               IF HasBit(m.has_bits, 2)
                 THEN Nested_Clear(DerefNested(@)) ELSE @,
            !.sense_ = 0,
            !.has_bits = 0,
            !.unknown = <<>>]

\* Instance::clear_objective
Instance_clear_objective(m) ==
  [m EXCEPT !.objective_ = IF @ # nullptr THEN Nested_Clear(@) ELSE @,
            !.has_bits = ClearBit(@, 2)]

\* Instance::clear_decision_variables
Instance_clear_decision_variables(m) == [m EXCEPT !.decision_variables_ = <<>>]

\* Instance::clear_constraints
Instance_clear_constraints(m) == [m EXCEPT !.constraints_ = <<>>]

\* the unknown fields of the source are left behind
Instance_CopyConstruct_without_unknown(from) ==
  [has_bits |-> from.has_bits,
   decision_variables_ |-> from.decision_variables_,
   constraints_ |-> from.constraints_,
   description_ |->
     IF HasBit(from.has_bits, 1)
       THEN Description_CopyConstruct(DerefDescription(from.description_))
       ELSE nullptr,
   objective_ |->
     IF HasBit(from.has_bits, 2)
       THEN Nested_CopyConstruct(DerefNested(from.objective_))
       ELSE nullptr,
   sense_ |-> from.sense_,
   unknown |-> <<>>]

\* Instance::Instance(Arena*, const Instance&)
Instance_CopyConstruct(from) ==
  [has_bits |-> from.has_bits,
   decision_variables_ |-> from.decision_variables_,
   constraints_ |-> from.constraints_,
   description_ |->
     IF HasBit(from.has_bits, 1)
       THEN Description_CopyConstruct(DerefDescription(from.description_))
       ELSE nullptr,
   objective_ |->
     IF HasBit(from.has_bits, 2)
       THEN Nested_CopyConstruct(DerefNested(from.objective_))
       ELSE nullptr,
   sense_ |-> from.sense_,
   unknown |-> from.unknown]

\* the sense of the source is taken even when it is 0
Instance_MergeImpl_sense_always(to, from) ==
  [to EXCEPT
     !.decision_variables_ = @ \o from.decision_variables_,
     !.constraints_ = @ \o from.constraints_,
     !.description_ =
        IF HasBit(from.has_bits, 1)
          THEN IF @ = nullptr
                 THEN Description_CopyConstruct(
                        DerefDescription(from.description_))
                 ELSE Description_MergeImpl(@,
                        DerefDescription(from.description_))
          ELSE @,
     !.objective_ =
        IF HasBit(from.has_bits, 2)
          THEN IF @ = nullptr
                 THEN Nested_CopyConstruct(DerefNested(from.objective_))
                 ELSE Nested_MergeFrom(@, DerefNested(from.objective_))
          ELSE @,
     !.sense_ = from.sense_,
     !.has_bits = OrBits(@, from.has_bits),
     !.unknown = @ \o from.unknown]

\* Instance::MergeImpl
Instance_MergeImpl(to, from) ==
  [to EXCEPT
     !.decision_variables_ = @ \o from.decision_variables_,
     !.constraints_ = @ \o from.constraints_,
     !.description_ =
        IF HasBit(from.has_bits, 1)
          THEN IF @ = nullptr
                 THEN Description_CopyConstruct(
                        DerefDescription(from.description_))
                 ELSE Description_MergeImpl(@,
                        DerefDescription(from.description_))
          ELSE @,
     !.objective_ =
        IF HasBit(from.has_bits, 2)
          THEN IF @ = nullptr
                 THEN Nested_CopyConstruct(DerefNested(from.objective_))
                 ELSE Nested_MergeFrom(@, DerefNested(from.objective_))
          ELSE @,
     !.sense_ = IF from.sense_ # 0 THEN from.sense_ ELSE @,
     !.has_bits = OrBits(@, from.has_bits),
     !.unknown = @ \o from.unknown]

\* the destination is cleared without asking whether it is the source
Instance_CopyFrom_without_self_test(m, this, from) ==
  LET cleared == [m EXCEPT ![this] = Instance_Clear(@)]
  IN [cleared EXCEPT ![this] = Instance_MergeImpl(@, cleared[from])]

\* Instance::CopyFrom, on the messages m by address: this->CopyFrom(from)
Instance_CopyFrom(m, this, from) ==
  IF from = this THEN m
  ELSE LET cleared == [m EXCEPT ![this] = Instance_Clear(@)]
       IN [cleared EXCEPT ![this] = Instance_MergeImpl(@, cleared[from])]

\* Instance_Description::CopyFrom, on the messages m by address
Description_CopyFrom(m, this, from) ==
  IF from = this THEN m
  ELSE LET cleared == [m EXCEPT ![this] = Description_Clear(@)]
       IN [cleared EXCEPT ![this] = Description_MergeImpl(@, cleared[from])]

\* the block exchanged ends before sense_
Instance_InternalSwap_without_sense(m, this, other) ==
  [m EXCEPT
     ![this] = [m[this] EXCEPT
                  !.unknown = m[other].unknown,
                  !.has_bits = m[other].has_bits,
                  !.decision_variables_ = m[other].decision_variables_,
                  !.constraints_ = m[other].constraints_,
                  !.description_ = m[other].description_,
                  !.objective_ = m[other].objective_],
     ![other] = [m[other] EXCEPT
                   !.unknown = m[this].unknown,
                   !.has_bits = m[this].has_bits,
                   !.decision_variables_ = m[this].decision_variables_,
                   !.constraints_ = m[this].constraints_,
                   !.description_ = m[this].description_,
                   !.objective_ = m[this].objective_]]

\* Instance::InternalSwap, on the messages m by address: the unknown
\* fields, the has-bits, the two lists, and the block of memory from
\* description_ to sense_
Instance_InternalSwap(m, this, other) ==
  [m EXCEPT
     ![this] = [m[this] EXCEPT
                  !.unknown = m[other].unknown,
                  !.has_bits = m[other].has_bits,
                  !.decision_variables_ = m[other].decision_variables_,
                  !.constraints_ = m[other].constraints_,
                  !.description_ = m[other].description_,
                  !.objective_ = m[other].objective_,
                  !.sense_ = m[other].sense_],
     ![other] = [m[other] EXCEPT
                   !.unknown = m[this].unknown,
                   !.has_bits = m[this].has_bits,
                   !.decision_variables_ = m[this].decision_variables_,
                   !.constraints_ = m[this].constraints_,
                   !.description_ = m[this].description_,
                   !.objective_ = m[this].objective_,
                   !.sense_ = m[this].sense_]]

\* Instance_Description::InternalSwap, on the messages m by address
Description_InternalSwap(m, this, other) ==
  [m EXCEPT
     ![this] = [m[this] EXCEPT
                  !.unknown = m[other].unknown,
                  !.has_bits = m[other].has_bits,
                  !.authors_ = m[other].authors_,
                  !.name_ = m[other].name_,
                  !.description_ = m[other].description_,
                  !.created_by_ = m[other].created_by_],
     ![other] = [m[other] EXCEPT
                   !.unknown = m[this].unknown,
                   !.has_bits = m[this].has_bits,
                   !.authors_ = m[this].authors_,
                   !.name_ = m[this].name_,
                   !.description_ = m[this].description_,
                   !.created_by_ = m[this].created_by_]]

\* an Instance without an objective is not initialized
Instance_IsInitialized_objective_required(m) == HasBit(m.has_bits, 2)

\* Instance::IsInitialized
Instance_IsInitialized(m) == TRUE

\* the bytes last serialized or received, and where they came from
NoWire == [bytes |-> <<>>, from |-> "none"]


\* ------------------------------------------------------------------------
\* Decoding.  The generated _InternalParse hands the bytes to
\* TcParser::ParseLoop with the message's _table_: a field whose number and
\* wire type the table knows is stored as the table says, any other field
\* goes to the unknown fields.
\* ------------------------------------------------------------------------
\* F of the value of v, v worked out once
Bind(v, F(_)) == CHOOSE r \in {F(x) : x \in {v}} : TRUE

NoField == [ok |-> FALSE, number |-> 0, wt |-> 0, val |-> 0, rest |-> <<>>]

\* the field at the front of b: its tag, then a payload shaped by the wire
\* type; not ok when the tag is bad or b ends inside the field
ReadField(b) ==
  Bind(ReadVarint(b), LAMBDA t :
    LET number == t.val \div 8
        wt == t.val % 8
        Fixed(n) ==
          IF Len(t.rest) >= n
            THEN [ok |-> TRUE, number |-> number, wt |-> wt,
                  val |-> Take(t.rest, n), rest |-> Drop(t.rest, n)]
            ELSE NoField
    IN IF ~t.ok \/ number = 0 THEN NoField
       ELSE IF wt = WIRETYPE_VARINT
         THEN Bind(ReadVarint(t.rest), LAMBDA v :
                IF v.ok
                  THEN [ok |-> TRUE, number |-> number, wt |-> wt,
                        val |-> v.val, rest |-> v.rest]
                  ELSE NoField)
       ELSE IF wt = WIRETYPE_LENGTH_DELIMITED
         THEN Bind(ReadVarint(t.rest), LAMBDA v :
                IF v.ok /\ Len(v.rest) >= v.val
                  THEN [ok |-> TRUE, number |-> number, wt |-> wt,
                        val |-> Take(v.rest, v.val),
                        rest |-> Drop(v.rest, v.val)]
                  ELSE NoField)
       ELSE IF wt = WIRETYPE_FIXED64 THEN Fixed(8)
       ELSE IF wt = WIRETYPE_FIXED32 THEN Fixed(4)
       ELSE NoField)

\* Instance_Description::_table_ : the field entries
Description_table ==
  [number \in {1, 2, 3, 4} |->
     IF number = 1
       THEN [card |-> "kFcOptional", rep |-> "kUtf8String",
             has_bit |-> 1, field |-> "name_"]
     ELSE IF number = 2
       THEN [card |-> "kFcOptional", rep |-> "kUtf8String",
             has_bit |-> 2, field |-> "description_"]
     ELSE IF number = 3
       THEN [card |-> "kFcRepeated", rep |-> "kUtf8String",
             has_bit |-> 0, field |-> "authors_"]
     ELSE [card |-> "kFcOptional", rep |-> "kUtf8String",
           has_bit |-> 4, field |-> "created_by_"]]

\* the bytes are stored whatever they are
StoreString_unchecked(d, e, val) ==
  [ok |-> TRUE,
   msg |-> IF e.card = "kFcRepeated"
             THEN [d EXCEPT ![e.field] = Append(@, val)]
             ELSE [d EXCEPT ![e.field] = val,
                            !.has_bits = SetBit(@, e.has_bit)]]

\* TcParser on a string entry: the bytes are stored, a singular field's
\* has-bit is set, and a kUtf8String field fails the parse when the bytes
\* are not UTF-8
StoreString(d, e, val) ==
  [ok |-> (e.rep = "kUtf8String") => IsValidUtf8(val),
   msg |-> IF e.card = "kFcRepeated"
             THEN [d EXCEPT ![e.field] = Append(@, val)]
             ELSE [d EXCEPT ![e.field] = val,
                            !.has_bits = SetBit(@, e.has_bit)]]

AddUnknown(m, f) ==
  [m EXCEPT !.unknown = Append(@, UnknownField(f.number, f.wt, f.val))]

RECURSIVE Description_InternalParse(_, _)
\* Instance_Description::_InternalParse: [ok, msg]
Description_InternalParse(b, d) ==
  IF b = <<>> THEN [ok |-> TRUE, msg |-> d]
  ELSE Bind(ReadField(b), LAMBDA f :
         IF ~f.ok THEN [ok |-> FALSE, msg |-> d]
         ELSE IF f.number \in DOMAIN Description_table
                 /\ f.wt = WIRETYPE_LENGTH_DELIMITED
           THEN Bind(StoreString(d, Description_table[f.number], f.val),
                     LAMBDA r :
                       IF r.ok THEN Description_InternalParse(f.rest, r.msg)
                       ELSE r)
         ELSE Bind(AddUnknown(d, f),
                   LAMBDA u : Description_InternalParse(f.rest, u)))

\* Instance::_table_ : the field entries
Instance_table ==
  [number \in {1, 2, 3, 4, 5} |->
     IF number = 1
       THEN [card |-> "kFcOptional", rep |-> "kMessage", has_bit |-> 1,
             field |-> "description_", wt |-> WIRETYPE_LENGTH_DELIMITED]
     ELSE IF number = 2
       THEN [card |-> "kFcRepeated", rep |-> "kMessage", has_bit |-> 0,
             field |-> "decision_variables_",
             wt |-> WIRETYPE_LENGTH_DELIMITED]
     ELSE IF number = 3
       THEN [card |-> "kFcOptional", rep |-> "kMessage", has_bit |-> 2,
             field |-> "objective_", wt |-> WIRETYPE_LENGTH_DELIMITED]
     ELSE IF number = 4
       THEN [card |-> "kFcRepeated", rep |-> "kMessage", has_bit |-> 0,
             field |-> "constraints_", wt |-> WIRETYPE_LENGTH_DELIMITED]
     ELSE [card |-> "kFcSingular", rep |-> "kOpenEnum", has_bit |-> 0,
           field |-> "sense_", wt |-> WIRETYPE_VARINT]]

\* a value that names no Sense is kept out of sense_ and put with the
\* unknown fields
StoreEnum_closed(m, e, f) ==
  IF Instance_Sense_IsValid(f.val)
    THEN [m EXCEPT ![e.field] = f.val]
    ELSE AddUnknown(m, f)

\* TcParser on an enum entry: a kOpenEnum field takes any 32-bit value (the
\* varints of the model are small, so none is cut to 32 bits)
StoreEnum(m, e, f) ==
  IF e.rep = "kOpenEnum" \/ Instance_Sense_IsValid(f.val)
    THEN [m EXCEPT ![e.field] = f.val]
    ELSE AddUnknown(m, f)

\* TcParser on a message entry: a repeated field gets a new element, a
\* singular one is created when absent; the payload is parsed into it
StoreMessage(m, e, val) ==
  IF e.card = "kFcRepeated"
    THEN [ok |-> TRUE,
          msg |-> [m EXCEPT ![e.field] = Append(@, Nested_Parse(NewNested, val))]]
  ELSE IF e.field = "description_"
    THEN Bind(Description_InternalParse(val,
                IF m.description_ = nullptr THEN NewDescription
                ELSE m.description_),
              LAMBDA r :
                [ok |-> r.ok,
                 msg |-> [m EXCEPT !.description_ = r.msg,
                                   !.has_bits = SetBit(@, e.has_bit)]])
  ELSE [ok |-> TRUE,
        msg |-> [m EXCEPT ![e.field] =
                            Nested_Parse(IF @ = nullptr THEN NewNested ELSE @, val),
                          !.has_bits = SetBit(@, e.has_bit)]]

RECURSIVE Instance_InternalParse(_, _)
\* Instance::_InternalParse: [ok, msg]
Instance_InternalParse(b, m) ==
  IF b = <<>> THEN [ok |-> TRUE, msg |-> m]
  ELSE Bind(ReadField(b), LAMBDA f :
         IF ~f.ok THEN [ok |-> FALSE, msg |-> m]
         ELSE IF f.number \in DOMAIN Instance_table
                 /\ f.wt = Instance_table[f.number].wt
           THEN IF Instance_table[f.number].rep = "kMessage"
                  THEN Bind(StoreMessage(m, Instance_table[f.number], f.val),
                            LAMBDA r :
                              IF r.ok THEN Instance_InternalParse(f.rest, r.msg)
                              ELSE r)
                  ELSE Bind(StoreEnum(m, Instance_table[f.number], f),
                            LAMBDA s : Instance_InternalParse(f.rest, s))
         ELSE Bind(AddUnknown(m, f),
                   LAMBDA u : Instance_InternalParse(f.rest, u)))

\* MessageLite::ParseFromString: Clear, parse, IsInitialized
ParseFromString(m, data) ==
  Bind(Instance_InternalParse(data, Instance_Clear(m)), LAMBDA r :
    [ok |-> r.ok /\ Instance_IsInitialized(r.msg), msg |-> r.msg])

\* MessageLite::ParseFromString on a Description
Description_ParseFromString(d, data) ==
  Description_InternalParse(data, Description_Clear(d))

\* ------------------------------------------------------------------------
\* The calls on a Quadratic.  last records the call just made.
\* ------------------------------------------------------------------------
QCall(op, field) == [op |-> op, field |-> field]

QCommit(q, call) ==
  /\ quad' = q
  /\ last' = call
  /\ UNCHANGED <<func, heap, arena, msg, peer, wire>>

Do_add_rows ==
  \E value \in Uints :
    /\ rows_size(quad) < MaxLen
    /\ QCommit(add_rows(quad, value), QCall("add", "rows"))

Do_add_columns ==
  \E value \in Uints :
    /\ columns_size(quad) < MaxLen
    /\ QCommit(add_columns(quad, value), QCall("add", "columns"))

Do_add_values ==
  \E value \in Doubles :
    /\ values_size(quad) < MaxLen
    /\ QCommit(add_values(quad, value), QCall("add", "values"))

Do_set_rows ==
  \E index \in 0..(rows_size(quad) - 1), value \in Uints :
    QCommit(set_rows(quad, index, value), QCall("set", "rows"))

Do_set_columns ==
  \E index \in 0..(columns_size(quad) - 1), value \in Uints :
    QCommit(set_columns(quad, index, value), QCall("set", "columns"))

Do_set_values ==
  \E index \in 0..(values_size(quad) - 1), value \in Doubles :
    QCommit(set_values(quad, index, value), QCall("set", "values"))

Do_clear_rows == QCommit(clear_rows(quad), QCall("clear", "rows"))

Do_clear_columns == QCommit(clear_columns(quad), QCall("clear", "columns"))

Do_clear_values == QCommit(clear_values(quad), QCall("clear", "values"))

\* mutable_rows(), mutable_columns(), mutable_values() return the address of
\* the field and change nothing
Do_mutable_rows == QCommit(quad, QCall("mutable", "rows"))

Do_mutable_columns == QCommit(quad, QCall("mutable", "columns"))

Do_mutable_values == QCommit(quad, QCall("mutable", "values"))

\* the caller shortens a field through the pointer mutable_X() gave
RemoveLastThroughPointer ==
  \/ /\ rows_size(quad) > 0
     /\ QCommit([quad EXCEPT !.rows_ = RepeatedRemoveLast(@)],
                QCall("remove_last", "rows"))
  \/ /\ columns_size(quad) > 0
     /\ QCommit([quad EXCEPT !.columns_ = RepeatedRemoveLast(@)],
                QCall("remove_last", "columns"))
  \/ /\ values_size(quad) > 0
     /\ QCommit([quad EXCEPT !.values_ = RepeatedRemoveLast(@)],
                QCall("remove_last", "values"))

\* the repeated fields of a Quadratic do not depend on its arena
InitQuadratic ==
  /\ arena = FALSE
  /\ func = NewFunction
  /\ heap = [o \in Objs |-> FreeCell]
  /\ last = QCall("init", "none")
  /\ quad = NewQuadratic
  /\ msg = NewInstance
  /\ peer = NewInstance
  /\ wire = NoWire

NextQuadratic ==
  \/ Do_add_rows
  \/ Do_add_columns
  \/ Do_add_values
  \/ Do_set_rows
  \/ Do_set_columns
  \/ Do_set_values
  \/ Do_clear_rows
  \/ Do_clear_columns
  \/ Do_clear_values
  \/ Do_mutable_rows
  \/ Do_mutable_columns
  \/ Do_mutable_values
  \/ RemoveLastThroughPointer

SpecQuadratic == InitQuadratic /\ [][NextQuadratic]_vars

\* ------------------------------------------------------------------------
\* Properties of Quadratic
\* ------------------------------------------------------------------------
Sizes(q) ==
  [rows |-> rows_size(q), columns |-> columns_size(q),
   values |-> values_size(q)]

Shape(q) == rows_size(q) = columns_size(q) /\ columns_size(q) = values_size(q)

\* C9 as stated: rows_size() == columns_size() == values_size() in every
\* reachable state of a Quadratic.
C9_Original == Shape(quad)

\* C9 amended: rows_size() == columns_size() == values_size() holds after
\* construction and is kept by every set_X and mutable_X call, which leave
\* the three sizes as they are; add_X adds one to the size of sequence X
\* only and clear_X makes the size of sequence X zero only, so the equality
\* is the caller's to keep and does not hold in every reachable state.
C9_ShapeKeptBySetOnly ==
  /\ Shape(NewQuadratic)
  /\ [][LET n == Sizes(quad)
            m == Sizes(quad')
        IN /\ last'.op \in {"set", "mutable"} => m = n /\ (Shape(quad) => Shape(quad'))
           /\ last'.op = "add" =>
                m = [n EXCEPT ![last'.field] = @ + 1]
           /\ last'.op = "clear" =>
                m = [n EXCEPT ![last'.field] = 0]]_vars

\* C9 witness: the three sequences have the same non-zero length after a
\* set_values call
C9_Witness ==
  /\ last = QCall("set", "values")
  /\ Shape(quad)
  /\ rows_size(quad) = MaxLen

\* C10: a Quadratic whose three sequences differ in length is representable:
\* add_rows, add_columns and add_values append the value to their own
\* sequence and leave the other two as they are, each can be called whatever
\* the lengths of the others, and IsInitialized() is true whatever the
\* lengths.
C10_Lengths_Independent ==
  /\ [](rows_size(quad) < MaxLen => ENABLED Do_add_rows)
  /\ [](columns_size(quad) < MaxLen => ENABLED Do_add_columns)
  /\ [](values_size(quad) < MaxLen => ENABLED Do_add_values)
  /\ [](Quadratic_IsInitialized(quad))
  /\ [][last'.op = "add" =>
          /\ last'.field = "rows" =>
               /\ Len(quad'.rows_) = Len(quad.rows_) + 1
               /\ SubSeq(quad'.rows_, 1, Len(quad.rows_)) = quad.rows_
               /\ quad'.columns_ = quad.columns_
               /\ quad'.values_ = quad.values_
          /\ last'.field = "columns" =>
               /\ Len(quad'.columns_) = Len(quad.columns_) + 1
               /\ SubSeq(quad'.columns_, 1, Len(quad.columns_)) = quad.columns_
               /\ quad'.rows_ = quad.rows_
               /\ quad'.values_ = quad.values_
          /\ last'.field = "values" =>
               /\ Len(quad'.values_) = Len(quad.values_) + 1
               /\ SubSeq(quad'.values_, 1, Len(quad.values_)) = quad.values_
               /\ quad'.rows_ = quad.rows_
               /\ quad'.columns_ = quad.columns_]_vars

\* C10 witness: add_rows has made rows longer than values, and values longer
\* than columns
C10_Witness ==
  /\ last = QCall("add", "rows")
  /\ rows_size(quad) = 2
  /\ values_size(quad) = 1
  /\ columns_size(quad) = 0
  /\ Quadratic_IsInitialized(quad)

\* ------------------------------------------------------------------------
\* The calls on a Function.  last records the call just made: its name, the
\* variant it is about, its argument and the value it returned.
\* ------------------------------------------------------------------------
Call(op, k, arg, ret) == [op |-> op, k |-> k, arg |-> arg, ret |-> ret]

Commit(s, call) ==
  /\ func' = [oneof_case |-> s.oneof_case, function_ |-> s.function_]
  /\ heap' = s.heap
  /\ last' = call
  /\ UNCHANGED <<arena, quad, msg, peer, wire>>

\* messages the caller holds and may hand to the Function
CallerOwned(k) == {o \in Objs : heap[o].type = k /\ heap[o].owner = "caller"}

Do_set_constant ==
  \E value \in Doubles :
    Commit(set_constant(Self, value), Call("set_constant", kConstant, value, NULL))

Do_clear_constant ==
  Commit(clear_constant(Self), Call("clear_constant", kConstant, NULL, NULL))

DoMutable(r, k) ==
  /\ function_case(Self) # k => Unallocated(Self.heap) # {}
  /\ Commit(r.s, Call("mutable", k, NULL, r.ret))

Do_mutable_linear == DoMutable(mutable_linear(Self), kLinear)

Do_mutable_quadratic == DoMutable(mutable_quadratic(Self), kQuadratic)

Do_mutable_polynomial == DoMutable(mutable_polynomial(Self), kPolynomial)

DoRelease(r, k) ==
  /\ (arena /\ function_case(Self) = k) => Unallocated(Self.heap) # {}
  /\ Commit(r.s, Call("release", k, NULL, r.ret))

Do_release_linear == DoRelease(release_linear(Self), kLinear)

Do_release_quadratic == DoRelease(release_quadratic(Self), kQuadratic)

Do_release_polynomial == DoRelease(release_polynomial(Self), kPolynomial)

DoUnsafeRelease(r, k) == Commit(r.s, Call("unsafe_arena_release", k, NULL, r.ret))

Do_unsafe_arena_release_linear ==
  DoUnsafeRelease(unsafe_arena_release_linear(Self), kLinear)

Do_unsafe_arena_release_quadratic ==
  DoUnsafeRelease(unsafe_arena_release_quadratic(Self), kQuadratic)

Do_unsafe_arena_release_polynomial ==
  DoUnsafeRelease(unsafe_arena_release_polynomial(Self), kPolynomial)

Do_unsafe_arena_set_allocated_linear ==
  \E value \in {NULL} \cup CallerOwned(kLinear) :
    Commit(unsafe_arena_set_allocated_linear(Self, value),
           Call("unsafe_arena_set_allocated", kLinear, value, NULL))

Do_unsafe_arena_set_allocated_quadratic ==
  \E value \in {NULL} \cup CallerOwned(kQuadratic) :
    Commit(unsafe_arena_set_allocated_quadratic(Self, value),
           Call("unsafe_arena_set_allocated", kQuadratic, value, NULL))

Do_unsafe_arena_set_allocated_polynomial ==
  \E value \in {NULL} \cup CallerOwned(kPolynomial) :
    Commit(unsafe_arena_set_allocated_polynomial(Self, value),
           Call("unsafe_arena_set_allocated", kPolynomial, value, NULL))

\* the caller builds a message of its own (new Linear, ...)
CallerNew ==
  \E k \in MessageCases, c \in Contents :
    /\ Unallocated(Self.heap) # {}
    /\ heap' = [Self.heap EXCEPT ![NewObj(Self.heap)] =
                  [type |-> k, owner |-> "caller", content |-> c, deletes |-> 0]]
    /\ last' = Call("new", k, c, NewObj(Self.heap))
    /\ UNCHANGED <<func, arena, quad, msg, peer, wire>>

\* the caller disposes of a message it holds
CallerDelete ==
  \E o \in Objs :
    /\ heap[o].owner = "caller"
    /\ heap' = Delete(Self.heap, o)
    /\ last' = Call("delete", heap[o].type, o, NULL)
    /\ UNCHANGED <<func, arena, quad, msg, peer, wire>>

\* the caller writes to the held message through the pointer mutable_X gave
MutateHeld ==
  \E c \in Contents :
    /\ function_case(Self) \in MessageCases
    /\ AsPtr(func.function_) \in Objs
    /\ heap' = [Self.heap EXCEPT ![AsPtr(func.function_)].content = c]
    /\ last' = Call("mutate", function_case(Self), c, NULL)
    /\ UNCHANGED <<func, arena, quad, msg, peer, wire>>

InitFunction ==
  /\ arena \in BOOLEAN
  /\ func = NewFunction
  /\ heap = [o \in Objs |-> FreeCell]
  /\ last = Call("init", FUNCTION_NOT_SET, NULL, NULL)
  /\ quad = NewQuadratic
  /\ msg = NewInstance
  /\ peer = NewInstance
  /\ wire = NoWire

NextFunction ==
  \/ Do_set_constant
  \/ Do_clear_constant
  \/ Do_mutable_linear
  \/ Do_mutable_quadratic
  \/ Do_mutable_polynomial
  \/ Do_release_linear
  \/ Do_release_quadratic
  \/ Do_release_polynomial
  \/ Do_unsafe_arena_release_linear
  \/ Do_unsafe_arena_release_quadratic
  \/ Do_unsafe_arena_release_polynomial
  \/ Do_unsafe_arena_set_allocated_linear
  \/ Do_unsafe_arena_set_allocated_quadratic
  \/ Do_unsafe_arena_set_allocated_polynomial
  \/ CallerNew
  \/ CallerDelete
  \/ MutateHeld

SpecFunction == InitFunction /\ [][NextFunction]_vars

\* ------------------------------------------------------------------------
\* Properties of Function
\* ------------------------------------------------------------------------
Cases == {kConstant, kLinear, kQuadratic, kPolynomial}

\* has_X() for the variant of case k
Has(s, k) ==
  IF k = kConstant THEN has_constant(s)
  ELSE IF k = kLinear THEN has_linear(s)
  ELSE IF k = kQuadratic THEN has_quadratic(s)
  ELSE has_polynomial(s)

\* X() for the variant of case k: the value read and whether storage was read
Get(s, k) ==
  IF k = kConstant THEN internal_constant(s)
  ELSE IF k = kLinear THEN internal_linear(s)
  ELSE IF k = kQuadratic THEN internal_quadratic(s)
  ELSE internal_polynomial(s)

Present(s) == {k \in Cases : Has(s, k)}

Setters == {"set_constant", "mutable", "unsafe_arena_set_allocated"}

\* C1: in every reachable state of a Function at most one of has_constant,
\* has_linear, has_quadratic, has_polynomial is true, and function_case() is
\* FUNCTION_NOT_SET or one of the four variant cases.
C1_AtMostOneVariant ==
  /\ Cardinality(Present(Self)) <= 1
  /\ function_case(Self) \in {FUNCTION_NOT_SET} \cup Cases

\* C1 witness: a variant is held right after it replaced another one
C1_Witness ==
  /\ last.op = "mutable"
  /\ has_polynomial(Self)
  /\ \E o \in Objs : heap[o].owner \in {"deleted", "dropped"}

\* C2 as stated: after any variant-setting call exactly one variant is
\* present, and every other variant is absent and reads as its default.
C2_Original ==
  last.op \in Setters =>
    /\ Cardinality(Present(Self)) = 1
    /\ \A k \in Cases \ Present(Self) : Get(Self, k).val = 0

\* C2 amended: after a variant-setting call the variant of the call is the
\* one present, every other variant is absent and reads as its default;
\* except after unsafe_arena_set_allocated_X(nullptr), which leaves no
\* variant present and every variant reading as its default.
C2_ExactlyOneAfterSet ==
  last.op \in Setters =>
    /\ Present(Self) =
         IF last.op = "unsafe_arena_set_allocated" /\ last.arg = NULL
           THEN {}
           ELSE {last.k}
    /\ \A k \in Cases \ Present(Self) : Get(Self, k).val = 0

\* C2 witness: a non-null message was handed over while a constant was held
C2_Witness ==
  /\ last.op = "unsafe_arena_set_allocated"
  /\ last.arg # NULL
  /\ has_quadratic(Self)
  /\ func.function_ = MkPtr(last.arg)

\* the messages the Function holds
Held(h) == {o \in Objs : h[o].owner \in {"msg", "arena"}}

\* the message the storage points to under the case of its class
Referenced(f, h) ==
  {o \in Objs : /\ f.oneof_case \in MessageCases
                /\ f.function_ = MkPtr(o)
                /\ h[o].type = f.oneof_case}

\* a setter is called for a variant other than the message variant held
SwitchStep ==
  /\ func.oneof_case \in MessageCases
  /\ last'.op \in Setters
  /\ last'.k # func.oneof_case

\* C3: when a setter for another variant is called while a message variant
\* is held, the held message is released by that call, exactly once, before
\* the storage is overwritten: afterwards it is freed (or back with the
\* arena), no message has been freed twice, and every message the Function
\* answers for is the one its storage points to.
C3_ReleasedOnSwitch ==
  [][/\ SwitchStep =>
          LET p == AsPtr(func.function_)
          IN /\ p \in Objs
             /\ heap'[p].owner = IF arena THEN "dropped" ELSE "deleted"
             /\ ~arena => heap'[p].deletes = 1
     /\ \A o \in Objs : heap'[o].deletes <= 1
     /\ Held(heap') = Referenced(func', heap')]_vars

\* C3 witness: a constant has replaced a held message, which was freed
C3_Witness ==
  /\ last.op = "set_constant"
  /\ has_constant(Self)
  /\ \E o \in Objs : heap[o].owner = "deleted" /\ heap[o].deletes = 1

\* C4: reading a variant that is not the active one does not read the union
\* storage and yields the default: 0 for constant(), the default instance
\* for linear(), quadratic(), polynomial(); also when no variant is set.
C4_InactiveReadsDefault ==
  \A k \in Cases :
    function_case(Self) # k =>
      /\ ~Get(Self, k).read
      /\ Get(Self, k).val = 0

\* C4 witness: no variant is set while the storage still holds the bytes of
\* a pointer (to a message that was freed)
C4_Witness ==
  /\ function_case(Self) = FUNCTION_NOT_SET
  /\ func.function_.kind = "ptr"

\* ------------------------------------------------------------------------
\* The accessors of Instance and Instance.Description (instance.pb.h)
\* ------------------------------------------------------------------------
DescriptionMask(field) ==
  IF field = "name_" THEN 1 ELSE IF field = "description_" THEN 2 ELSE 4

DescriptionNumber(field) ==
  IF field = "name_" THEN 1 ELSE IF field = "description_" THEN 2 ELSE 4

OptionalStrings == {"name_", "description_", "created_by_"}

\* set_name, set_description, set_created_by
Description_set(d, field, s) ==
  [d EXCEPT ![field] = s, !.has_bits = SetBit(@, DescriptionMask(field))]

\* clear_name, clear_description, clear_created_by
Description_clear(d, field) ==
  [d EXCEPT ![field] = <<>>, !.has_bits = ClearBit(@, DescriptionMask(field))]

\* add_authors
Description_add_authors(d, s) == [d EXCEPT !.authors_ = Append(@, s)]

\* mutable_unknown_fields()->AddVarint
AddVarint(m, number, value) ==
  [m EXCEPT !.unknown = Append(@, UnknownField(number, WIRETYPE_VARINT, value))]

\* Instance::mutable_description
Instance_mutable_description(m) ==
  [m EXCEPT !.description_ = IF @ = nullptr THEN NewDescription ELSE @,
            !.has_bits = SetBit(@, 1)]

\* Instance::clear_description
Instance_clear_description(m) ==
  [m EXCEPT !.description_ = IF @ # nullptr THEN Description_Clear(@) ELSE @,
            !.has_bits = ClearBit(@, 1)]

\* Instance::mutable_objective
Instance_mutable_objective(m) ==
  [m EXCEPT !.objective_ = IF @ = nullptr THEN NewNested ELSE @,
            !.has_bits = SetBit(@, 2)]

\* Instance::add_decision_variables, with the element filled in
Instance_add_decision_variables(m, body) ==
  [m EXCEPT !.decision_variables_ = Append(@, [body |-> body])]

\* Instance::add_constraints, with the element filled in
Instance_add_constraints(m, body) ==
  [m EXCEPT !.constraints_ = Append(@, [body |-> body])]

\* Instance::set_sense
Instance_set_sense(m, value) == [m EXCEPT !.sense_ = value]

\* ------------------------------------------------------------------------
\* The calls on an Instance.  msg is the message the caller builds, peer a
\* second message that is parsed, copied or merged into, wire the bytes in
\* between.  A message is built first and exchanged afterwards: the
\* setters run while nothing has been serialized, parsed or copied yet.
\* ------------------------------------------------------------------------
Strings == {<<>>, <<97>>, <<255>>}

Bodies == {<<8, 1>>}

Senses == {0, 1, 2, 3}

\* what the strings of an Instance's description are set to
InstanceStrings(field) == IF field = "name_" THEN Strings ELSE {<<97>>}

\* bytes that arrive from elsewhere: sense = 3; field 6 before sense = 3;
\* a description holding field 7
Inputs ==
  {<<40, 3>>, <<48, 1, 40, 3>>, <<10, 2, 56, 1>>, <<18, 2, 8, 9>>}

ICall(op, phase, ok) == [op |-> op, phase |-> phase, ok |-> ok]

Building == last.phase = "build"

BodyLen(p) == IF p = nullptr THEN 0 ELSE Len(p.body)

AuthorsLen(p) == IF p = nullptr THEN 0 ELSE Len(p.authors_)

UnknownLen(p) == IF p = nullptr THEN 0 ELSE Len(p.unknown)

DescriptionWeight(d) ==
  (IF HasBit(d.has_bits, 1) THEN 1 ELSE 0)
  + (IF HasBit(d.has_bits, 2) THEN 1 ELSE 0)
  + (IF HasBit(d.has_bits, 4) THEN 1 ELSE 0)
  + Len(d.authors_) + Len(d.unknown)

\* how much a message holds: its present fields and the elements of its
\* repeated fields, those of its description included
Weight(m) ==
  Len(m.decision_variables_) + Len(m.constraints_) + Len(m.unknown)
  + (IF m.sense_ # 0 THEN 1 ELSE 0)
  + (IF HasBit(m.has_bits, 2)
       THEN 1 + (IF BodyLen(m.objective_) > 0 THEN 1 ELSE 0) ELSE 0)
  + (IF HasBit(m.has_bits, 1)
       THEN 1 + DescriptionWeight(m.description_) ELSE 0)

\* the sizes the model lets a message grow to
Fits(m) ==
  /\ Weight(m) <= MaxWeight
  /\ Len(m.decision_variables_) <= MaxList
  /\ Len(m.constraints_) <= MaxList
  /\ Len(m.unknown) <= MaxList
  /\ AuthorsLen(m.description_) <= MaxList
  /\ UnknownLen(m.description_) <= MaxList
  /\ BodyLen(m.objective_) <= MaxBody

Build(m, op) ==
  /\ Building
  /\ Fits(m)
  /\ msg' = m
  /\ last' = ICall(op, "build", TRUE)
  /\ UNCHANGED <<func, heap, arena, quad, peer, wire>>

Exchange(p, w, op, ok) ==
  /\ Fits(p)
  /\ peer' = p
  /\ wire' = w
  /\ last' = ICall(op, "exchange", ok)
  /\ UNCHANGED <<func, heap, arena, quad, msg>>

Do_set_sense == \E v \in Senses : Build(Instance_set_sense(msg, v), "set_sense")

\* the caller gives the element it adds to a list of n the id n + 1 (the
\* first element has the body in Bodies)
ElementBodies(n) == {<<8, n + 1>>}

Do_add_decision_variables ==
  \E b \in ElementBodies(Len(msg.decision_variables_)) :
    Build(Instance_add_decision_variables(msg, b), "add_decision_variables")

Do_add_constraints ==
  \E b \in ElementBodies(Len(msg.constraints_)) :
    Build(Instance_add_constraints(msg, b), "add_constraints")

\* mutable_objective(), and what the caller writes through the pointer
Do_mutable_objective ==
  \E b \in {<<>>} \cup Bodies :
    Build([Instance_mutable_objective(msg) EXCEPT !.objective_.body = b],
          "mutable_objective")

Do_mutable_description ==
  Build(Instance_mutable_description(msg), "mutable_description")

\* mutable_description()->set_name(s) and the like
Do_description_set ==
  \E field \in OptionalStrings : \E s \in InstanceStrings(field) :
    Build([Instance_mutable_description(msg) EXCEPT
             !.description_ = Description_set(@, field, s)],
          "description.set")

Do_description_clear ==
  \E field \in OptionalStrings :
    Build([Instance_mutable_description(msg) EXCEPT
             !.description_ = Description_clear(@, field)],
          "description.clear")

Do_description_add_authors ==
  Build([Instance_mutable_description(msg) EXCEPT
           !.description_ = Description_add_authors(@, <<97>>)],
        "description.add_authors")

Do_add_unknown == Build(AddVarint(msg, 6, 1), "AddVarint")

Do_clear_description ==
  Build(Instance_clear_description(msg), "clear_description")

Do_clear_objective == Build(Instance_clear_objective(msg), "clear_objective")

Do_clear_decision_variables ==
  Build(Instance_clear_decision_variables(msg), "clear_decision_variables")

Do_clear_constraints ==
  Build(Instance_clear_constraints(msg), "clear_constraints")

Do_Clear == Build(Instance_Clear(msg), "Clear")

Do_SerializeToString ==
  Exchange(peer, [bytes |-> SerializeToString(msg), from |-> "msg"],
           "SerializeToString", TRUE)

Do_peer_SerializeToString ==
  Exchange(peer, [bytes |-> SerializeToString(peer), from |-> "peer"],
           "SerializeToString", TRUE)

Do_Input ==
  \E b \in Inputs :
    Exchange(peer, [bytes |-> b, from |-> "input"], "Input", TRUE)

Do_ParseFromString ==
  /\ wire.from # "none"
  /\ \E r \in {ParseFromString(peer, wire.bytes)} :
       Exchange(r.msg, wire, "ParseFromString", r.ok)

Do_CopyConstruct ==
  Exchange(Instance_CopyConstruct(msg), wire, "CopyConstruct", TRUE)

Do_MergeFrom == Exchange(Instance_MergeImpl(peer, msg), wire, "MergeFrom", TRUE)

\* the two messages of the model, by address
Messages == [msg |-> msg, peer |-> peer]

Do_CopyFrom ==
  Exchange(Instance_CopyFrom(Messages, "peer", "msg").peer, wire,
           "CopyFrom", TRUE)

Do_peer_Clear == Exchange(Instance_Clear(peer), wire, "Clear", TRUE)

InitInstance ==
  /\ arena = FALSE
  /\ func = NewFunction
  /\ heap = [o \in Objs |-> FreeCell]
  /\ quad = NewQuadratic
  /\ last = ICall("init", "build", TRUE)
  /\ msg = NewInstance
  /\ peer = NewInstance
  /\ wire = NoWire

NextInstance ==
  \/ Do_set_sense
  \/ Do_add_decision_variables
  \/ Do_add_constraints
  \/ Do_mutable_objective
  \/ Do_mutable_description
  \/ Do_description_set
  \/ Do_description_clear
  \/ Do_description_add_authors
  \/ Do_add_unknown
  \/ Do_clear_description
  \/ Do_clear_objective
  \/ Do_clear_decision_variables
  \/ Do_clear_constraints
  \/ Do_Clear
  \/ Do_SerializeToString
  \/ Do_peer_SerializeToString
  \/ Do_Input
  \/ Do_ParseFromString
  \/ Do_CopyConstruct
  \/ Do_MergeFrom
  \/ Do_CopyFrom
  \/ Do_peer_Clear

SpecInstance == InitInstance /\ [][NextInstance]_vars

\* ------------------------------------------------------------------------
\* The calls on an Instance.Description of its own: msg and peer are
\* Descriptions here
\* ------------------------------------------------------------------------
\* bytes that arrive from elsewhere: field 7; a name that is not UTF-8
DescriptionInputs == {<<56, 1>>, <<10, 1, 255>>}

DescriptionFits(d) ==
  /\ DescriptionWeight(d) <= MaxWeight
  /\ Len(d.authors_) <= MaxList
  /\ Len(d.unknown) <= MaxList

DescriptionBuild(d, op) ==
  /\ Building
  /\ DescriptionFits(d)
  /\ msg' = d
  /\ last' = ICall(op, "build", TRUE)
  /\ UNCHANGED <<func, heap, arena, quad, peer, wire>>

DescriptionExchange(p, w, op, ok) ==
  /\ DescriptionFits(p)
  /\ peer' = p
  /\ wire' = w
  /\ last' = ICall(op, "exchange", ok)
  /\ UNCHANGED <<func, heap, arena, quad, msg>>

Do_Description_set ==
  \E field \in OptionalStrings : \E s \in Strings :
    DescriptionBuild(Description_set(msg, field, s), "set")

Do_Description_clear ==
  \E field \in OptionalStrings :
    DescriptionBuild(Description_clear(msg, field), "clear")

Do_Description_add_authors ==
  \E s \in Strings :
    DescriptionBuild(Description_add_authors(msg, s), "add_authors")

Do_Description_AddVarint == DescriptionBuild(AddVarint(msg, 7, 1), "AddVarint")

Do_Description_Clear == DescriptionBuild(Description_Clear(msg), "Clear")

Do_Description_SerializeToString ==
  DescriptionExchange(peer,
    [bytes |-> Description_InternalSerialize(msg), from |-> "msg"],
    "SerializeToString", TRUE)

Do_Description_peer_SerializeToString ==
  DescriptionExchange(peer,
    [bytes |-> Description_InternalSerialize(peer), from |-> "peer"],
    "SerializeToString", TRUE)

Do_Description_Input ==
  \E b \in DescriptionInputs :
    DescriptionExchange(peer, [bytes |-> b, from |-> "input"], "Input", TRUE)

Do_Description_ParseFromString ==
  /\ wire.from # "none"
  /\ \E r \in {Description_ParseFromString(peer, wire.bytes)} :
       DescriptionExchange(r.msg, wire, "ParseFromString", r.ok)

Do_Description_CopyConstruct ==
  DescriptionExchange(Description_CopyConstruct(msg), wire,
                      "CopyConstruct", TRUE)

Do_Description_MergeFrom ==
  DescriptionExchange(Description_MergeImpl(peer, msg), wire, "MergeFrom", TRUE)

InitDescription ==
  /\ arena = FALSE
  /\ func = NewFunction
  /\ heap = [o \in Objs |-> FreeCell]
  /\ quad = NewQuadratic
  /\ last = ICall("init", "build", TRUE)
  /\ msg = NewDescription
  /\ peer = NewDescription
  /\ wire = NoWire

NextDescription ==
  \/ Do_Description_set
  \/ Do_Description_clear
  \/ Do_Description_add_authors
  \/ Do_Description_AddVarint
  \/ Do_Description_Clear
  \/ Do_Description_SerializeToString
  \/ Do_Description_peer_SerializeToString
  \/ Do_Description_Input
  \/ Do_Description_ParseFromString
  \/ Do_Description_CopyConstruct
  \/ Do_Description_MergeFrom

SpecDescription == InitDescription /\ [][NextDescription]_vars

\* ------------------------------------------------------------------------
\* Properties of Instance and Instance.Description
\* ------------------------------------------------------------------------
RECURSIVE WireFields(_)
\* the fields a reader finds on the wire, one [number, wt, val] each, up to
\* the first it cannot read
WireFields(b) ==
  IF b = <<>> THEN <<>>
  ELSE LET f == ReadField(b)
       IN IF ~f.ok THEN <<>>
          ELSE <<UnknownField(f.number, f.wt, f.val)>> \o WireFields(f.rest)

\* the schema of Instance knows the field
InSchema(f) ==
  \/ f.number \in {1, 2, 3, 4} /\ f.wt = WIRETYPE_LENGTH_DELIMITED
  \/ f.number = 5 /\ f.wt = WIRETYPE_VARINT

DescriptionUtf8(d) ==
  /\ IsValidUtf8(d.name_)
  /\ IsValidUtf8(d.description_)
  /\ IsValidUtf8(d.created_by_)
  /\ \A i \in 1..Len(d.authors_) : IsValidUtf8(d.authors_[i])

\* every string the message holds is UTF-8
AllUtf8(m) == HasBit(m.has_bits, 1) => DescriptionUtf8(m.description_)

\* what the accessors of a message show
Observed(m) ==
  [has_description |-> HasBit(m.has_bits, 1),
   description |->
     IF HasBit(m.has_bits, 1) THEN m.description_ ELSE NewDescription,
   decision_variables |-> m.decision_variables_,
   has_objective |-> HasBit(m.has_bits, 2),
   objective |-> IF HasBit(m.has_bits, 2) THEN m.objective_ ELSE NewNested,
   constraints |-> m.constraints_,
   sense |-> m.sense_,
   unknown |-> m.unknown]

Decoded == last.op = "ParseFromString" /\ wire.from = "msg"

\* C5 as stated: whatever message was built, parsing the bytes it
\* serializes to succeeds and gives a message equal to it field for field
C5_Original == Decoded => (last.ok /\ Observed(peer) = Observed(msg))

\* C5: when the strings of the built message are UTF-8, parsing the bytes
\* it serializes to succeeds and gives a message equal to it field for
\* field: description presence and its strings, decision_variables and
\* constraints in order, objective presence and content, sense
C5_RoundTrip ==
  (Decoded /\ AllUtf8(msg)) => (last.ok /\ Observed(peer) = Observed(msg))

C5_Witness ==
  /\ Decoded
  /\ last.ok
  /\ HasBit(msg.has_bits, 1)
  /\ msg.description_.name_ = <<97>>
  /\ msg.sense_ = 2
  /\ wire.bytes = <<10, 3, 10, 1, 97, 40, 2>>
  /\ Observed(peer) = Observed(msg)

OnWire(b, number) ==
  \E i \in 1..Len(WireFields(b)) :
    /\ WireFields(b)[i].number = number
    /\ WireFields(b)[i].wt = WIRETYPE_LENGTH_DELIMITED

SameStrings(a, b) ==
  \A field \in OptionalStrings :
    /\ HasBit(a.has_bits, DescriptionMask(field))
         <=> HasBit(b.has_bits, DescriptionMask(field))
    /\ a[field] = b[field]

WrittenIffHasBit ==
  (last.op = "SerializeToString" /\ wire.from = "msg") =>
    \A field \in OptionalStrings :
      OnWire(wire.bytes, DescriptionNumber(field))
        <=> HasBit(msg.has_bits, DescriptionMask(field))

IsPrefix(a, b) == Len(a) <= Len(b) /\ SubSeq(b, 1, Len(a)) = a

Serialized == IF wire.from = "msg" THEN msg ELSE peer

\* serialization puts the unknown fields, in their order, after every field
\* of the schema
UnknownFieldsLast ==
  last.op = "SerializeToString" =>
    LET fs == WireFields(wire.bytes)
        n == Len(fs) - Len(Serialized.unknown)
    IN /\ n >= 0
       /\ SubSeq(fs, n + 1, Len(fs)) = Serialized.unknown
       /\ \A i \in 1..n : InSchema(fs[i])

\* a successful parse keeps the fields the schema does not know, in order
UnknownFieldsKept ==
  (last.op = "ParseFromString" /\ last.ok) =>
    peer.unknown = SelectSeq(WireFields(wire.bytes), LAMBDA f : ~InSchema(f))

UnknownFieldsCopied ==
  last.op = "CopyConstruct" => peer.unknown = msg.unknown

UnknownFieldsMerged ==
  last'.op = "MergeFrom" => peer'.unknown = peer.unknown \o msg.unknown

\* a step after which a message has lost unknown fields is Clear, or CopyFrom
\* or ParseFromString, which start with Clear(); the copy constructor makes
\* peer a new message
UnknownFieldsDropped ==
  /\ ~IsPrefix(msg.unknown, msg'.unknown) => last'.op = "Clear"
  /\ (~IsPrefix(peer.unknown, peer'.unknown) /\ last'.op # "CopyConstruct") =>
       last'.op \in {"Clear", "CopyFrom", "ParseFromString"}

SenseFields(b) ==
  SelectSeq(WireFields(b),
            LAMBDA f : f.number = 5 /\ f.wt = WIRETYPE_VARINT)

\* C8: a sense of 3 on the wire parses, is kept in sense_ as 3, and is
\* written again as 3
C8_OpenEnum ==
  LET senses == SenseFields(wire.bytes)
  IN /\ (last.op = "ParseFromString" /\ last.ok /\ senses # <<>>) =>
          peer.sense_ = senses[Len(senses)].val
     /\ (last.op = "ParseFromString" /\ wire.from = "input") => last.ok
     /\ (last.op = "SerializeToString" /\ Serialized.sense_ # 0) =>
          (Len(senses) = 1 /\ senses[1].val = Serialized.sense_)

C8_Witness ==
  /\ last.op = "SerializeToString"
  /\ wire.from = "peer"
  /\ peer.sense_ = 3
  /\ msg.sense_ # 3
  /\ wire.bytes = <<40, 3>>

\* ------------------------------------------------------------------------
\* Quadratic: optional Linear linear = 4.  The Linear lives in the heap the
\* Function's sub-messages live in; has-bit 0x1 says whether it is present.
\* ------------------------------------------------------------------------
QSelf == [q |-> quad, heap |-> Reclaim(heap)]

\* Quadratic::has_linear
Quadratic_has_linear(s) == HasBit(s.q.has_bits, 1)

\* Quadratic::_internal_linear: *p, or the default instance (content 0)
Quadratic_internal_linear(s) ==
  IF s.q.linear_ # NULL THEN Deref(s, s.q.linear_, kLinear) ELSE 0

\* Quadratic::linear
Quadratic_linear(s) == Quadratic_internal_linear(s)

\* what becomes of the message linear_ pointed to when the Quadratic stores
\* another pointer: deleted off the arena, left to the arena on it
DeleteUnlessArena(h, p) == IF arena THEN Abandon(h, p) ELSE Delete(h, p)

\* Quadratic::unsafe_arena_set_allocated_linear
Quadratic_unsafe_arena_set_allocated_linear(s, value) ==
  [q |-> [s.q EXCEPT !.linear_ = value,
                     !.has_bits = IF value # NULL THEN SetBit(@, 1)
                                  ELSE ClearBit(@, 1)],
   heap |-> TakeIn(DeleteUnlessArena(s.heap, s.q.linear_), value)]

\* internal::GetOwnedMessage for a message the caller made on the heap: an
\* arena takes it over as it is
GetOwnedMessage(h, value) == TakeIn(h, value)

\* Quadratic::set_allocated_linear
Quadratic_set_allocated_linear(s, value) ==
  [q |-> [s.q EXCEPT !.linear_ = value,
                     !.has_bits = IF value # NULL THEN SetBit(@, 1)
                                  ELSE ClearBit(@, 1)],
   heap |-> GetOwnedMessage(DeleteUnlessArena(s.heap, s.q.linear_), value)]

\* the has-bit is cleared and the pointer stays
Quadratic_release_linear_keeping_pointer(s) ==
  LET released == s.q.linear_
      h == IF arena
             THEN Abandon(DuplicateIfNonNull(s.heap, released), released)
             ELSE HandOut(s.heap, released)
  IN [s |-> [q |-> [s.q EXCEPT !.has_bits = ClearBit(@, 1)],
             heap |-> h],
      ret |-> IF arena /\ released \in Objs THEN NewObj(s.heap) ELSE released]

\* Quadratic::release_linear (PROTOBUF_FORCE_COPY_IN_RELEASE not defined):
\* [s |-> the Quadratic afterwards, ret |-> the pointer returned]
Quadratic_release_linear(s) ==
  LET released == s.q.linear_
      h == IF arena
             THEN Abandon(DuplicateIfNonNull(s.heap, released), released)
             ELSE HandOut(s.heap, released)
  IN [s |-> [q |-> [s.q EXCEPT !.has_bits = ClearBit(@, 1),
                               !.linear_ = NULL],
             heap |-> h],
      ret |-> IF arena /\ released \in Objs THEN NewObj(s.heap) ELSE released]

\* the has-bit is left set
Quadratic_unsafe_arena_release_linear_keeping_has_bit(s) ==
  [s |-> [q |-> [s.q EXCEPT !.linear_ = NULL],
          heap |-> HandOut(s.heap, s.q.linear_)],
   ret |-> s.q.linear_]

\* Quadratic::unsafe_arena_release_linear
Quadratic_unsafe_arena_release_linear(s) ==
  [s |-> [q |-> [s.q EXCEPT !.has_bits = ClearBit(@, 1), !.linear_ = NULL],
          heap |-> HandOut(s.heap, s.q.linear_)],
   ret |-> s.q.linear_]

\* Quadratic::_internal_mutable_linear
Quadratic_internal_mutable_linear(s) ==
  LET s1 == IF s.q.linear_ = NULL
              THEN [q |-> [s.q EXCEPT !.linear_ = NewObj(s.heap)],
                    heap |-> DefaultConstruct(s.heap, kLinear)]
              ELSE s
  IN [s |-> s1, ret |-> s1.q.linear_]

\* Quadratic::mutable_linear
Quadratic_mutable_linear(s) ==
  Quadratic_internal_mutable_linear(
    [s EXCEPT !.q.has_bits = SetBit(@, 1)])

\* ------------------------------------------------------------------------
\* The calls on the linear term of a Quadratic
\* ------------------------------------------------------------------------
LCall(op, arg, ret) == [op |-> op, field |-> "linear", arg |-> arg, ret |-> ret]

LCommit(s, call) ==
  /\ quad' = s.q
  /\ heap' = s.heap
  /\ last' = call
  /\ UNCHANGED <<func, arena, msg, peer, wire>>

Do_Quadratic_mutable_linear ==
  /\ quad.linear_ = NULL => Unallocated(QSelf.heap) # {}
  /\ LCommit(Quadratic_mutable_linear(QSelf).s,
             LCall("mutable", NULL, Quadratic_mutable_linear(QSelf).ret))

Do_Quadratic_set_allocated_linear ==
  \E value \in {NULL} \cup CallerOwned(kLinear) :
    LCommit(Quadratic_set_allocated_linear(QSelf, value),
            LCall("set_allocated", value, NULL))

Do_Quadratic_unsafe_arena_set_allocated_linear ==
  \E value \in {NULL} \cup CallerOwned(kLinear) :
    LCommit(Quadratic_unsafe_arena_set_allocated_linear(QSelf, value),
            LCall("unsafe_arena_set_allocated", value, NULL))

Do_Quadratic_release_linear ==
  /\ (arena /\ quad.linear_ # NULL) => Unallocated(QSelf.heap) # {}
  /\ LCommit(Quadratic_release_linear(QSelf).s,
             LCall("release", NULL, Quadratic_release_linear(QSelf).ret))

Do_Quadratic_unsafe_arena_release_linear ==
  LCommit(Quadratic_unsafe_arena_release_linear(QSelf).s,
          LCall("unsafe_arena_release", NULL,
                Quadratic_unsafe_arena_release_linear(QSelf).ret))

\* the caller builds a Linear of its own
LinearCallerNew ==
  \E c \in Contents :
    /\ Unallocated(QSelf.heap) # {}
    /\ heap' = [QSelf.heap EXCEPT ![NewObj(QSelf.heap)] =
                  [type |-> kLinear, owner |-> "caller", content |-> c,
                   deletes |-> 0]]
    /\ last' = LCall("new", c, NewObj(QSelf.heap))
    /\ UNCHANGED <<func, arena, quad, msg, peer, wire>>

\* the caller disposes of a Linear it holds
LinearCallerDelete ==
  \E o \in Objs :
    /\ heap[o].owner = "caller"
    /\ heap' = Delete(QSelf.heap, o)
    /\ last' = LCall("delete", o, NULL)
    /\ UNCHANGED <<func, arena, quad, msg, peer, wire>>

\* the caller writes to a Linear through a pointer it has: one it holds, or
\* the one mutable_linear gave
LinearMutate ==
  \E o \in Objs, c \in Contents :
    /\ heap[o].owner = "caller" \/ (o = quad.linear_ /\ Quadratic_has_linear(QSelf))
    /\ heap[o].owner # "deleted"
    /\ heap' = [QSelf.heap EXCEPT ![o].content = c]
    /\ last' = LCall("mutate", o, c)
    /\ UNCHANGED <<func, arena, quad, msg, peer, wire>>

InitQuadraticLinear ==
  /\ arena \in BOOLEAN
  /\ func = NewFunction
  /\ heap = [o \in Objs |-> FreeCell]
  /\ last = LCall("init", NULL, NULL)
  /\ quad = NewQuadratic
  /\ msg = NewInstance
  /\ peer = NewInstance
  /\ wire = NoWire

NextQuadraticLinear ==
  \/ Do_Quadratic_mutable_linear
  \/ Do_Quadratic_set_allocated_linear
  \/ Do_Quadratic_unsafe_arena_set_allocated_linear
  \/ Do_Quadratic_release_linear
  \/ Do_Quadratic_unsafe_arena_release_linear
  \/ LinearCallerNew
  \/ LinearCallerDelete
  \/ LinearMutate

SpecQuadraticLinear == InitQuadraticLinear /\ [][NextQuadraticLinear]_vars

\* C11: in every state reached through mutable_linear, set_allocated_linear,
\* unsafe_arena_set_allocated_linear, release_linear and
\* unsafe_arena_release_linear, a Quadratic whose has_linear() is false reads
\* linear() as the default Linear
C11_AbsentLinearReadsDefault ==
  ~Quadratic_has_linear(QSelf) => Quadratic_linear(QSelf) = 0

\* linear was released with content in it, which the caller now holds
C11_Witness ==
  /\ last.op \in {"release", "unsafe_arena_release"}
  /\ last.ret \in Objs
  /\ heap[last.ret].content # 0
  /\ ~Quadratic_has_linear(QSelf)
  /\ Quadratic_linear(QSelf) = 0

\* ------------------------------------------------------------------------
\* Field numbers
\* ------------------------------------------------------------------------
\* Function: enum of field numbers
kConstantFieldNumber == 1
kLinearFieldNumber == 2
kQuadraticFieldNumber == 3
kPolynomialFieldNumber == 4

\* Quadratic: enum of field numbers
kRowsFieldNumber == 1
kColumnsFieldNumber == 2
kValuesFieldNumber == 3
Quadratic_kLinearFieldNumber == 4

\* the tags of a sequence of fields read from the wire
TagsOf(fs) == [i \in 1..Len(fs) |-> MakeTag(fs[i].number, fs[i].wt)]

Repeat(n, x) == [i \in 1..n |-> x]

\* the tags the published table gives the fields an Instance holds, in field
\* order
InstanceTags(m) ==
  (IF HasBit(m.has_bits, 1) THEN <<10>> ELSE <<>>)
  \o Repeat(Len(m.decision_variables_), 18)
  \o (IF HasBit(m.has_bits, 2) THEN <<26>> ELSE <<>>)
  \o Repeat(Len(m.constraints_), 34)
  \o (IF m.sense_ # 0 THEN <<40>> ELSE <<>>)

\* the same for an Instance.Description
DescriptionTags(d) ==
  (IF HasBit(d.has_bits, 1) THEN <<10>> ELSE <<>>)
  \o (IF HasBit(d.has_bits, 2) THEN <<18>> ELSE <<>>)
  \o Repeat(Len(d.authors_), 26)
  \o (IF HasBit(d.has_bits, 4) THEN <<34>> ELSE <<>>)

\* C12: the field numbers are those of the published table. The field
\* numbers of Function are 1-4 and equal the FunctionCase values; those of
\* Quadratic are 1-4; the parse tables of Instance and Instance.Description
\* take tags 10, 18, 26, 34 (length-delimited) and, for Instance, 40
\* (varint); and every serialized Instance carries its description,
\* decision_variables, objective, constraints and sense under tags 10, 18,
\* 26, 34, 40 and, inside the description, name, description, authors and
\* created_by under tags 10, 18, 26, 34
C12_FieldNumbers ==
  /\ <<kConstantFieldNumber, kLinearFieldNumber, kQuadraticFieldNumber,
       kPolynomialFieldNumber>> = <<1, 2, 3, 4>>
  /\ <<kConstantFieldNumber, kLinearFieldNumber, kQuadraticFieldNumber,
       kPolynomialFieldNumber>> = <<kConstant, kLinear, kQuadratic, kPolynomial>>
  /\ <<kRowsFieldNumber, kColumnsFieldNumber, kValuesFieldNumber,
       Quadratic_kLinearFieldNumber>> = <<1, 2, 3, 4>>
  /\ [n \in DOMAIN Instance_table |-> MakeTag(n, Instance_table[n].wt)]
       = <<10, 18, 26, 34, 40>>
  /\ [n \in DOMAIN Instance_table |-> Instance_table[n].field]
       = <<"description_", "decision_variables_", "objective_",
           "constraints_", "sense_">>
  /\ [n \in DOMAIN Description_table |-> Description_table[n].field]
       = <<"name_", "description_", "authors_", "created_by_">>
  /\ last.op = "SerializeToString" =>
       LET fs == WireFields(wire.bytes)
           m == Serialized
           d == DerefDescription(m.description_)
       IN /\ TagsOf(fs) = InstanceTags(m) \o TagsOf(m.unknown)
          /\ HasBit(m.has_bits, 1) =>
               TagsOf(WireFields(fs[1].val))
                 = DescriptionTags(d) \o TagsOf(d.unknown)

\* an Instance with a description that names an author, and with a sense,
\* has been serialized
C12_Witness ==
  /\ last.op = "SerializeToString"
  /\ HasBit(Serialized.has_bits, 1)
  /\ Len(DerefDescription(Serialized.description_).authors_) = 1
  /\ Serialized.sense_ # 0
  /\ TagsOf(WireFields(wire.bytes)) = <<10, 40>>
  /\ TagsOf(WireFields(WireFields(wire.bytes)[1].val)) = <<26>>

\* ------------------------------------------------------------------------
\* IsInitialized
\* ------------------------------------------------------------------------
\* Function::IsInitialized
Function_IsInitialized(s) == TRUE

\* Instance_Description::IsInitialized
Description_IsInitialized(d) == TRUE

\* which message the calls made so far were made on
OnFunction == "k" \in DOMAIN last
OnInstance == "phase" \in DOMAIN last /\ "sense_" \in DOMAIN msg
OnDescription == "phase" \in DOMAIN last /\ "authors_" \in DOMAIN msg

\* a Function, an Instance or an Instance.Description, under every call of
\* its own
InitMessages == InitFunction \/ InitInstance \/ InitDescription

NextMessages ==
  \/ OnFunction /\ NextFunction
  \/ OnInstance /\ NextInstance
  \/ OnDescription /\ NextDescription

SpecMessages == InitMessages /\ [][NextMessages]_vars

\* C13: IsInitialized() is true of a Function, of an Instance (and of the
\* description it holds) and of an Instance.Description in every state,
\* whatever fields are set or unset
C13_AlwaysInitialized ==
  /\ OnFunction => Function_IsInitialized(Self)
  /\ OnInstance =>
       /\ Instance_IsInitialized(msg)
       /\ Instance_IsInitialized(peer)
       /\ Description_IsInitialized(DerefDescription(msg.description_))
  /\ OnDescription =>
       /\ Description_IsInitialized(msg)
       /\ Description_IsInitialized(peer)

\* an Instance with no field set was parsed from an empty string, which
\* succeeded
C13_Witness ==
  /\ OnInstance
  /\ last.op = "ParseFromString"
  /\ last.ok
  /\ wire.bytes = <<>>
  /\ peer.has_bits = 0
  /\ Instance_IsInitialized(peer)

\* ------------------------------------------------------------------------
\* Malformed input
\* ------------------------------------------------------------------------
\* the field numbers whose tag is one byte
OneByteTagNumbers == 1..15

\* x is the bytes of one varint
IsVarint(x) ==
  /\ Len(x) \in 1..10
  /\ x[Len(x)] < 128
  /\ \A i \in 1..(Len(x) - 1) : x[i] >= 128

\* x is one field as the encoding lays it out: a tag of a field number from
\* 1 and a wire type that is varint, 64-bit, length-delimited or 32-bit,
\* then a payload of that type, whole
IsField(x) ==
  /\ x # <<>>
  /\ \E number \in OneByteTagNumbers :
       \E wt \in {WIRETYPE_VARINT, WIRETYPE_FIXED64,
                  WIRETYPE_LENGTH_DELIMITED, WIRETYPE_FIXED32} :
         /\ x[1] = MakeTag(number, wt)
         /\ LET rest == Drop(x, 1)
            IN IF wt = WIRETYPE_VARINT THEN IsVarint(rest)
               ELSE IF wt = WIRETYPE_FIXED64 THEN Len(rest) = 8
               ELSE IF wt = WIRETYPE_FIXED32 THEN Len(rest) = 4
               ELSE \E n \in 0..Len(rest) :
                      /\ IsPrefix(Varint(n), rest)
                      /\ Len(rest) = Len(Varint(n)) + n

RECURSIVE Framed(_)
\* b is a sequence of whole fields
Framed(b) ==
  \/ b = <<>>
  \/ \E n \in 1..Len(b) : IsField(Take(b, n)) /\ Framed(Drop(b, n))

\* b is no Instance.Description: it is not a sequence of whole fields, or
\* one of name, description, authors, created_by is not UTF-8
DescriptionMalformed(b) ==
  \/ ~Framed(b)
  \/ \E i \in 1..Len(WireFields(b)) :
       /\ WireFields(b)[i].number \in {1, 2, 3, 4}
       /\ WireFields(b)[i].wt = WIRETYPE_LENGTH_DELIMITED
       /\ ~IsValidUtf8(WireFields(b)[i].val)

\* the field is a description that is no Instance.Description
Corrupt(f) ==
  /\ f.number = 1
  /\ f.wt = WIRETYPE_LENGTH_DELIMITED
  /\ DescriptionMalformed(f.val)

\* b is no Instance
InstanceMalformed(b) ==
  \/ ~Framed(b)
  \/ \E i \in 1..Len(WireFields(b)) : Corrupt(WireFields(b)[i])

\* the whole fields of b that come before the first corrupt one
BeforeCorruption(b) ==
  LET fs == WireFields(b)
      bad == {i \in 1..Len(fs) : Corrupt(fs[i])}
  IN IF bad = {} THEN fs
     ELSE SubSeq(fs, 1, (CHOOSE i \in bad : \A j \in bad : i <= j) - 1)

PayloadsOf(fs, number) ==
  LET sel == SelectSeq(fs, LAMBDA f : f.number = number
                                      /\ f.wt = WIRETYPE_LENGTH_DELIMITED)
  IN [i \in 1..Len(sel) |-> [body |-> sel[i].val]]

LastSense(fs) ==
  LET sel == SelectSeq(fs, LAMBDA f : f.number = 5 /\ f.wt = WIRETYPE_VARINT)
  IN IF sel = <<>> THEN 0 ELSE sel[Len(sel)].val

\* ------------------------------------------------------------------------
\* Decoding arbitrary bytes
\* ------------------------------------------------------------------------
MaxInput == 3

\* bytes that read as the tags of name, description, authors, created_by, as
\* a tag of field number 0, as lengths, as a character, as a byte that is
\* not UTF-8 and does not end a varint
DecodeBytes == {1, 7, 10, 18, 26, 34, 255}

\* every string of at most MaxInput of them, handed to Instance.Description
DescriptionDecodeInputs ==
  UNION {[1..k -> DecodeBytes] : k \in 0..MaxInput}

\* for Instance: each of them as a description, with its length or a length
\* one too long, alone or after a sense, and alone or before a sense or a
\* decision variable; and each of them as it is
InstanceDecodeInputs ==
  DescriptionDecodeInputs
  \cup {pre \o <<10, n>> \o d \o post :
          pre \in {<<>>, <<40, 1>>},
          n \in 0..(MaxInput + 1),
          d \in DescriptionDecodeInputs,
          post \in {<<>>, <<40, 2>>, <<18, 1, 1>>}}

InitDecode ==
  /\ arena = FALSE
  /\ func = NewFunction
  /\ heap = [o \in Objs |-> FreeCell]
  /\ quad = NewQuadratic
  /\ last = ICall("init", "exchange", TRUE)
  /\ \/ /\ msg = NewInstance
        /\ peer \in {NewInstance, Instance_set_sense(NewInstance, 2)}
        /\ \E b \in InstanceDecodeInputs :
             wire = [bytes |-> b, from |-> "input"]
     \/ /\ msg = NewDescription
        /\ peer \in {NewDescription,
                     Description_set(NewDescription, "name_", <<97>>)}
        /\ \E b \in DescriptionDecodeInputs :
             wire = [bytes |-> b, from |-> "input"]

Do_Decode_Instance ==
  /\ OnInstance
  /\ \E r \in {ParseFromString(peer, wire.bytes)} :
       /\ peer' = r.msg
       /\ last' = ICall("ParseFromString", "exchange", r.ok)
  /\ UNCHANGED <<func, heap, arena, quad, msg, wire>>

Do_Decode_Description ==
  /\ OnDescription
  /\ \E r \in {Description_ParseFromString(peer, wire.bytes)} :
       /\ peer' = r.msg
       /\ last' = ICall("ParseFromString", "exchange", r.ok)
  /\ UNCHANGED <<func, heap, arena, quad, msg, wire>>

NextDecode == Do_Decode_Instance \/ Do_Decode_Description

SpecDecode == InitDecode /\ [][NextDecode]_vars

MaxSlots == 4

Slots == 1..MaxSlots

\* what a sub-message holds: nothing, or something
SubContents == {0, 1}

FreeSlot == [type |-> "free", content |-> 0]

\* the place operator new or the arena gives the next sub-message
NewSlot(h) ==
  CHOOSE o \in Slots :
    /\ h[o].type = "free"
    /\ \A q \in Slots : h[q].type = "free" => o <= q

FreeSlots(h) == {o \in Slots : h[o].type = "free"}

\* the destination is given the pointer of the source
Message_CopyConstruct_shallow(h, p) == [heap |-> h, ret |-> p]

\* Message::CopyConstruct<T>(arena, from): a new T with the content of from
Message_CopyConstruct(h, p) ==
  [heap |-> [h EXCEPT ![NewSlot(h)] = h[p]], ret |-> NewSlot(h)]

RECURSIVE CopyElements(_, _)
\* RepeatedPtrField<T>: a copy of every element of ps, in order
CopyElements(h, ps) ==
  IF ps = <<>> THEN [heap |-> h, ret |-> <<>>]
  ELSE LET c == Message_CopyConstruct(h, ps[1])
           r == CopyElements(c.heap, Drop(ps, 1))
       IN [heap |-> r.heap, ret |-> <<c.ret>> \o r.ret]

RECURSIVE DestroyElements(_, _)
DestroyElements(h, ps) ==
  IF ps = <<>> THEN h
  ELSE DestroyElements([h EXCEPT ![ps[1]] = FreeSlot], Drop(ps, 1))

NewInstancePointers ==
  [has_bits |-> 0, description_ |-> NULL, objective_ |-> NULL,
   decision_variables_ |-> <<>>, constraints_ |-> <<>>]

\* T::MergeFrom on the content of a sub-message: what from has set
\* replaces what to holds
ContentMergeFrom(to, from) == IF from # 0 THEN from ELSE to

CopyIfSet(h, m, mask, p) ==
  IF HasBit(m.has_bits, mask) THEN Message_CopyConstruct(h, p)
  ELSE [heap |-> h, ret |-> NULL]

\* Instance::Instance(arena, from): [heap, m]
Instance_CopyConstruct_Pointers(h, from) ==
  LET dv == CopyElements(h, from.decision_variables_)
      cs == CopyElements(dv.heap, from.constraints_)
      d == CopyIfSet(cs.heap, from, 1, from.description_)
      o == CopyIfSet(d.heap, from, 2, from.objective_)
  IN [heap |-> o.heap,
      m |-> [has_bits |-> from.has_bits,
             description_ |-> d.ret, objective_ |-> o.ret,
             decision_variables_ |-> dv.ret, constraints_ |-> cs.ret]]

ClearIfSet(h, m, mask, p) ==
  IF HasBit(m.has_bits, mask) THEN [h EXCEPT ![p].content = 0] ELSE h

\* Instance::Clear: the lists are emptied, the description and objective are
\* cleared where they are
Instance_Clear_Pointers(h, m) ==
  LET h1 == DestroyElements(DestroyElements(h, m.decision_variables_),
                            m.constraints_)
      h2 == ClearIfSet(h1, m, 1, m.description_)
      h3 == ClearIfSet(h2, m, 2, m.objective_)
  IN [heap |-> h3,
      m |-> [m EXCEPT !.has_bits = 0, !.decision_variables_ = <<>>,
                      !.constraints_ = <<>>]]

\* MergeImpl on a singular sub-message: copied when the destination has
\* none, merged into the destination's own otherwise
MergeIfSet(h, from, mask, to_p, from_p) ==
  IF ~HasBit(from.has_bits, mask) THEN [heap |-> h, ret |-> to_p]
  ELSE IF to_p = NULL THEN Message_CopyConstruct(h, from_p)
  ELSE [heap |-> [h EXCEPT ![to_p].content =
                             ContentMergeFrom(@, h[from_p].content)],
        ret |-> to_p]

\* Instance::MergeImpl: [heap, m]
Instance_MergeImpl_Pointers(h, to, from) ==
  LET dv == CopyElements(h, from.decision_variables_)
      cs == CopyElements(dv.heap, from.constraints_)
      d == MergeIfSet(cs.heap, from, 1, to.description_, from.description_)
      o == MergeIfSet(d.heap, from, 2, to.objective_, from.objective_)
  IN [heap |-> o.heap,
      m |-> [has_bits |-> OrBits(to.has_bits, from.has_bits),
             description_ |-> d.ret, objective_ |-> o.ret,
             decision_variables_ |-> to.decision_variables_ \o dv.ret,
             constraints_ |-> to.constraints_ \o cs.ret]]

\* Instance::CopyFrom
Instance_CopyFrom_Pointers(h, to, from) ==
  LET c == Instance_Clear_Pointers(h, to)
  IN Instance_MergeImpl_Pointers(c.heap, c.m, from)

\* Instance::~Instance
Instance_Destroy_Pointers(h, m) ==
  LET h1 == DestroyElements(DestroyElements(h, m.decision_variables_),
                            m.constraints_)
      h2 == IF m.description_ # NULL
              THEN [h1 EXCEPT ![m.description_] = FreeSlot] ELSE h1
  IN IF m.objective_ # NULL THEN [h2 EXCEPT ![m.objective_] = FreeSlot]
     ELSE h2

Singular == {"description_", "objective_"}
Repeated == {"decision_variables_", "constraints_"}
SingularMask(field) == IF field = "description_" THEN 1 ELSE 2
TypeOf(field) ==
  IF field = "description_" THEN "Description"
  ELSE IF field = "objective_" THEN "Function"
  ELSE IF field = "decision_variables_" THEN "DecisionVariable"
  ELSE "Constraint"

\* Instance::mutable_description, mutable_objective, and a write of c
\* through the pointer returned
Instance_mutable_Pointers(h, m, field, c) ==
  LET p == IF m[field] = NULL THEN NewSlot(h) ELSE m[field]
  IN [heap |-> [h EXCEPT ![p] = [type |-> TypeOf(field), content |-> c]],
      m |-> [m EXCEPT ![field] = p,
                      !.has_bits = SetBit(@, SingularMask(field))]]

\* Instance::add_decision_variables, add_constraints, and a write of c
\* through the pointer returned
Instance_add_Pointers(h, m, field, c) ==
  [heap |-> [h EXCEPT ![NewSlot(h)] = [type |-> TypeOf(field), content |-> c]],
   m |-> [m EXCEPT ![field] = Append(@, NewSlot(h))]]

\* every sub-message an Instance points to
Pointers(m) ==
  ({m.description_, m.objective_} \ {NULL})
  \cup {m.decision_variables_[i] : i \in 1..Len(m.decision_variables_)}
  \cup {m.constraints_[i] : i \in 1..Len(m.constraints_)}

PointerCount(m) ==
  Cardinality({m.description_, m.objective_} \ {NULL})
  + Len(m.decision_variables_) + Len(m.constraints_)

\* what the accessors of the Instance show of its sub-messages
View(h, m) ==
  [description |->
     IF HasBit(m.has_bits, 1) THEN h[m.description_].content ELSE 0,
   objective |->
     IF HasBit(m.has_bits, 2) THEN h[m.objective_].content ELSE 0,
   decision_variables |->
     [i \in 1..Len(m.decision_variables_) |->
        h[m.decision_variables_[i]].content],
   constraints |->
     [i \in 1..Len(m.constraints_) |-> h[m.constraints_[i]].content]]

PCall(op, on) == [op |-> op, on |-> on]

PointersFit(m) == PointerCount(m) <= MaxSlots \div 2

OnSource(r, op) ==
  /\ PointersFit(r.m)
  /\ heap' = r.heap
  /\ msg' = r.m
  /\ last' = PCall(op, "source")
  /\ UNCHANGED <<func, arena, quad, peer, wire>>

OnDestination(r, op) ==
  /\ PointersFit(r.m)
  /\ heap' = r.heap
  /\ peer' = r.m
  /\ last' = PCall(op, "destination")
  /\ UNCHANGED <<func, arena, quad, msg, wire>>

\* room for n more sub-messages
Room(n) == Cardinality(FreeSlots(heap)) >= n

Do_Pointers_mutable ==
  \E field \in Singular, c \in SubContents :
    /\ Room(1)
    /\ \/ OnSource(Instance_mutable_Pointers(heap, msg, field, c), "write")
       \/ OnDestination(Instance_mutable_Pointers(heap, peer, field, c),
                        "write")

Do_Pointers_add ==
  \E field \in Repeated, c \in SubContents :
    /\ Room(1)
    /\ \/ OnSource(Instance_add_Pointers(heap, msg, field, c), "write")
       \/ OnDestination(Instance_add_Pointers(heap, peer, field, c), "write")

\* mutable_decision_variables(i), mutable_constraints(i): a write through
\* the pointer to an element
Do_Pointers_mutable_element ==
  \E field \in Repeated, c \in SubContents :
    \/ \E i \in 1..Len(msg[field]) :
         OnSource([heap |-> [heap EXCEPT ![msg[field][i]].content = c],
                   m |-> msg], "write")
    \/ \E i \in 1..Len(peer[field]) :
         OnDestination([heap |-> [heap EXCEPT ![peer[field][i]].content = c],
                        m |-> peer], "write")

\* Instance peer(msg): the destination there was is destroyed
Do_Pointers_CopyConstruct ==
  /\ PointerCount(msg) <= Cardinality(FreeSlots(heap)) + PointerCount(peer)
  /\ OnDestination(
       Instance_CopyConstruct_Pointers(
         Instance_Destroy_Pointers(heap, peer), msg), "CopyConstruct")

Do_Pointers_MergeFrom ==
  /\ Room(PointerCount(msg))
  /\ OnDestination(Instance_MergeImpl_Pointers(heap, peer, msg), "MergeFrom")

Do_Pointers_CopyFrom ==
  /\ Room(PointerCount(msg))
  /\ OnDestination(Instance_CopyFrom_Pointers(heap, peer, msg), "CopyFrom")

InitInstancePointers ==
  /\ arena = FALSE
  /\ func = NewFunction
  /\ heap = [o \in Slots |-> FreeSlot]
  /\ quad = NewQuadratic
  /\ last = PCall("init", "none")
  /\ msg = NewInstancePointers
  /\ peer = NewInstancePointers
  /\ wire = NoWire

NextInstancePointers ==
  \/ Do_Pointers_mutable
  \/ Do_Pointers_add
  \/ Do_Pointers_mutable_element
  \/ Do_Pointers_CopyConstruct
  \/ Do_Pointers_MergeFrom
  \/ Do_Pointers_CopyFrom

SpecInstancePointers == InitInstancePointers /\ [][NextInstancePointers]_vars

\* no sub-message belongs to both Instances
Separate == Pointers(msg) \cap Pointers(peer) = {}

\* a call on one Instance changes nothing the other shows
Independent ==
  /\ last'.on = "source" => View(heap', peer') = View(heap, peer)
  /\ last'.on = "destination" => View(heap', msg') = View(heap, msg)

\* the copy shows what the source shows
CopiedContent ==
  last.op \in {"CopyConstruct", "CopyFrom"} =>
    View(heap, peer) = View(heap, msg)

\* C15: after Instance(from), CopyFrom and MergeFrom the description,
\* objective, decision_variables and constraints of the destination are
\* other objects than those of the source, with the source's content, and
\* no later call on either Instance changes what the other shows
C15_CopiesAreSeparate ==
  /\ [](Separate /\ CopiedContent)
  /\ [][Independent]_vars

\* the source was written to after it was copied: the copy keeps what it
\* was given
C15_Witness ==
  /\ last.op = "write"
  /\ last.on = "source"
  /\ HasBit(msg.has_bits, 1)
  /\ HasBit(peer.has_bits, 1)
  /\ peer.description_ # msg.description_
  /\ heap[msg.description_].content # heap[peer.description_].content

\* ------------------------------------------------------------------------
\* Repeated fields on the wire
\* ------------------------------------------------------------------------
\* the payloads of the length-delimited fields of b with the number, in the
\* order they are written
PayloadsOnWire(b, number) ==
  LET sel == SelectSeq(WireFields(b),
                       LAMBDA f : f.number = number
                                  /\ f.wt = WIRETYPE_LENGTH_DELIMITED)
  IN [i \in 1..Len(sel) |-> sel[i].val]

\* C16: authors has no presence of its own. A serialized
\* Instance.Description holds one field 3 for every author, in index order,
\* the empty ones too, and none when the list is empty, whatever the
\* has-bits are; and after Clear() the list is empty
C16_AuthorsHaveNoPresence ==
  /\ last.op = "SerializeToString" =>
       PayloadsOnWire(wire.bytes, 3) = Serialized.authors_
  /\ last.op = "Clear" => msg.authors_ = <<>>

\* a Description with no has-bit set and two authors, the second one empty,
\* has been serialized
C16_Witness ==
  /\ last.op = "SerializeToString"
  /\ Serialized.has_bits = 0
  /\ Serialized.authors_ = <<<<97>>, <<>>>>
  /\ wire.bytes = <<26, 1, 97, 26, 0>>

BodiesOf(ms) == [i \in 1..Len(ms) |-> ms[i].body]

\* serialization writes the elements of both lists in index order
WrittenInOrder ==
  last.op = "SerializeToString" =>
    /\ PayloadsOnWire(wire.bytes, 2) = BodiesOf(Serialized.decision_variables_)
    /\ PayloadsOnWire(wire.bytes, 4) = BodiesOf(Serialized.constraints_)

\* MergeFrom puts the elements of the source, in their order, after those of
\* the destination
MergedInOrder ==
  last'.op = "MergeFrom" =>
    /\ peer'.decision_variables_
         = peer.decision_variables_ \o msg.decision_variables_
    /\ peer'.constraints_ = peer.constraints_ \o msg.constraints_

\* C17: the order of decision_variables and of constraints is kept:
\* serialization writes the elements in increasing index order, and
\* MergeFrom appends the elements of the source after those of the
\* destination without reordering either
C17_OrderPreserved == [](WrittenInOrder) /\ [][MergedInOrder]_vars

\* a destination holding the decision variable 9 was merged with a source
\* holding the decision variable 1, and holds 9 then 1
C17_Witness ==
  /\ last.op = "MergeFrom"
  /\ BodiesOf(msg.decision_variables_) = <<<<8, 1>>>>
  /\ BodiesOf(peer.decision_variables_) = <<<<8, 9>>, <<8, 1>>>>

\* ------------------------------------------------------------------------
\* Function: calls on a variant that is, or is not, the one held
\* ------------------------------------------------------------------------
\* release_X(), unsafe_arena_release_X(), mutable_X() for the X of case k
ReleaseOf(s, k) ==
  IF k = kLinear THEN release_linear(s)
  ELSE IF k = kQuadratic THEN release_quadratic(s)
  ELSE release_polynomial(s)

UnsafeArenaReleaseOf(s, k) ==
  IF k = kLinear THEN unsafe_arena_release_linear(s)
  ELSE IF k = kQuadratic THEN unsafe_arena_release_quadratic(s)
  ELSE unsafe_arena_release_polynomial(s)

MutableOf(s, k) ==
  IF k = kLinear THEN mutable_linear(s)
  ELSE IF k = kQuadratic THEN mutable_quadratic(s)
  ELSE mutable_polynomial(s)

\* release_X() has the memory it needs for the copy it makes on an arena
CanRelease(s) == arena => Unallocated(s.heap) # {}

C19_ActiveVariantKept ==
  /\ \A k \in MessageCases :
       function_case(Self) = k =>
         MutableOf(Self, k) = [s |-> Self, ret |-> AsPtr(Self.function_)]
  /\ (last.op = "mutable" /\ "k" \in DOMAIN last) =>
       /\ function_case(Self) = last.k
       /\ MutableOf(Self, last.k).ret = last.ret
  /\ function_case(Self) = kConstant =>
       \A v \in Doubles :
         set_constant(Self, v) = [Self EXCEPT !.function_ = MkDouble(v)]

\* mutable_linear() was called on a Function holding a linear with content,
\* and returned the message held
C19_Witness ==
  /\ last.op = "mutable"
  /\ last.k = kLinear
  /\ function_case(Self) = kLinear
  /\ last.ret = AsPtr(func.function_)
  /\ linear(Self) # 0

\* ------------------------------------------------------------------------
\* Ownership of released sub-messages: a Function, or the linear term of a
\* Quadratic, under every call of its own
\* ------------------------------------------------------------------------
OnQuadraticLinear == "field" \in DOMAIN last

InitOwnership == InitFunction \/ InitQuadraticLinear

NextOwnership ==
  \/ OnFunction /\ NextFunction
  \/ OnQuadraticLinear /\ NextQuadraticLinear

SpecOwnership == InitOwnership /\ [][NextOwnership]_vars

\* what release handed to the caller: off an arena the object held, on an
\* arena a heap copy of it, the arena keeping its own
HandedOut(before, after, held, ret) ==
  /\ ret \in Objs
  /\ after[ret].owner = "caller"
  /\ after[ret].content = before[held].content
  /\ IF arena THEN ret # held /\ after[held].owner # "caller"
     ELSE ret = held

\* C20: in every state, release_X() of the variant a Function holds, and
\* release_linear() of a Quadratic that has a linear, leave the message with
\* null storage and the variant or has-bit absent, and give the caller the
\* object held or, on an arena, a heap duplicate of it and never the
\* arena's own object; unsafe_arena_release_X() leaves the message the same
\* way and returns the stored pointer itself
C20_ReleaseHandsOwnershipOut ==
  /\ \A k \in MessageCases :
       (function_case(Self) = k /\ CanRelease(Self)) =>
         LET r == ReleaseOf(Self, k)
             u == UnsafeArenaReleaseOf(Self, k)
             held == AsPtr(Self.function_)
         IN /\ function_case(r.s) = FUNCTION_NOT_SET
            /\ AsPtr(r.s.function_) = NULL
            /\ HandedOut(Self.heap, r.s.heap, held, r.ret)
            /\ function_case(u.s) = FUNCTION_NOT_SET
            /\ AsPtr(u.s.function_) = NULL
            /\ u.ret = held
  /\ (Quadratic_has_linear(QSelf) /\ CanRelease(QSelf)) =>
       LET r == Quadratic_release_linear(QSelf)
           u == Quadratic_unsafe_arena_release_linear(QSelf)
           held == QSelf.q.linear_
       IN /\ ~Quadratic_has_linear(r.s)
          /\ r.s.q.linear_ = NULL
          /\ HandedOut(QSelf.heap, r.s.heap, held, r.ret)
          /\ ~Quadratic_has_linear(u.s)
          /\ u.s.q.linear_ = NULL
          /\ u.ret = held

\* release_linear() was called on a Quadratic on an arena whose linear had
\* content: the caller holds a copy and the Quadratic holds nothing
C20_Witness ==
  /\ OnQuadraticLinear
  /\ arena
  /\ last.op = "release"
  /\ last.ret \in Objs
  /\ heap[last.ret].owner = "caller"
  /\ heap[last.ret].content # 0
  /\ quad.linear_ = NULL
  /\ ~Quadratic_has_linear(QSelf)

\* ------------------------------------------------------------------------
\* An Instance or an Instance.Description, under every call of its own.
\* InternalSwap exchanges the two messages, which are on the same arena
\* (none); it is called before any bytes are exchanged, and only a second
\* swap follows it
\* ------------------------------------------------------------------------
\* the two messages have been swapped and not been used since
Swapped == last.phase = "swapped"

Swap(m) ==
  /\ ~Building
  /\ wire.from = "none"
  /\ msg' = m.msg
  /\ peer' = m.peer
  /\ last' = ICall("InternalSwap", "swapped", TRUE)
  /\ UNCHANGED <<func, heap, arena, quad, wire>>

Do_InternalSwap == Swap(Instance_InternalSwap(Messages, "msg", "peer"))

Do_Description_InternalSwap ==
  Swap(Description_InternalSwap(Messages, "msg", "peer"))

InitInstanceMessages == InitInstance \/ InitDescription

NextInstanceMessages ==
  \/ OnInstance /\ ~Swapped /\ NextInstance
  \/ OnInstance /\ Do_InternalSwap
  \/ OnDescription /\ ~Swapped /\ NextDescription
  \/ OnDescription /\ Do_Description_InternalSwap

SpecInstanceMessages == InitInstanceMessages /\ [][NextInstanceMessages]_vars

\* ------------------------------------------------------------------------
\* MergeFrom
\* ------------------------------------------------------------------------
OptionalMasks == {1, 2, 4}

\* what merging the Description from into the Description to must give
DescriptionMerged(to, from, r) ==
  /\ r.authors_ = to.authors_ \o from.authors_
  /\ r.name_ = IF HasBit(from.has_bits, 1) THEN from.name_ ELSE to.name_
  /\ r.description_ =
       IF HasBit(from.has_bits, 2) THEN from.description_ ELSE to.description_
  /\ r.created_by_ =
       IF HasBit(from.has_bits, 4) THEN from.created_by_ ELSE to.created_by_
  /\ \A mask \in OptionalMasks :
       HasBit(r.has_bits, mask)
         <=> (HasBit(to.has_bits, mask) \/ HasBit(from.has_bits, mask))
  /\ r.unknown = to.unknown \o from.unknown

\* what merging the Instance from into the Instance to must give
InstanceMerged(to, from, r) ==
  /\ r.decision_variables_ = to.decision_variables_ \o from.decision_variables_
  /\ r.constraints_ = to.constraints_ \o from.constraints_
  /\ IF HasBit(from.has_bits, 1)
       THEN /\ HasBit(r.has_bits, 1)
            /\ r.description_ # nullptr
            /\ DescriptionMerged(
                 IF to.description_ = nullptr
                   THEN NewDescription ELSE to.description_,
                 from.description_, r.description_)
       ELSE /\ r.description_ = to.description_
            /\ HasBit(r.has_bits, 1) <=> HasBit(to.has_bits, 1)
  /\ IF HasBit(from.has_bits, 2)
       THEN /\ HasBit(r.has_bits, 2)
            /\ r.objective_ # nullptr
            /\ r.objective_.body = (IF to.objective_ = nullptr THEN <<>> ELSE to.objective_.body) \o from.objective_.body
       ELSE /\ r.objective_ = to.objective_
            /\ HasBit(r.has_bits, 2) <=> HasBit(to.has_bits, 2)
  /\ r.sense_ = (IF from.sense_ # 0 THEN from.sense_ ELSE to.sense_)
  /\ \A mask \in {1, 2} :
       HasBit(r.has_bits, mask)
         <=> (HasBit(to.has_bits, mask) \/ HasBit(from.has_bits, mask))
  /\ r.unknown = to.unknown \o from.unknown

\* C21: MergeFrom on an Instance and on an Instance.Description appends the
\* repeated fields of the source to those of the destination, merges or
\* overwrites every singular field that is present in the source and makes
\* it present, leaves value and presence of a field absent in the source
\* unchanged, overwrites sense if and only if the source's sense is not 0,
\* and leaves the union of the has-bits of both
C21_MergeFromSemantics ==
  /\ OnInstance => InstanceMerged(peer, msg, Instance_MergeImpl(peer, msg))
  /\ OnDescription =>
       DescriptionMerged(peer, msg, Description_MergeImpl(peer, msg))

\* an Instance that held a decision variable has been merged with one that
\* holds another decision variable and a sense
C21_Witness ==
  /\ OnInstance
  /\ last.op = "MergeFrom"
  /\ Len(msg.decision_variables_) = 1
  /\ Len(peer.decision_variables_) = 2
  /\ peer.decision_variables_[1] # peer.decision_variables_[2]
  /\ peer.decision_variables_[2] = msg.decision_variables_[1]
  /\ msg.sense_ # 0
  /\ peer.sense_ = msg.sense_

\* ------------------------------------------------------------------------
\* CopyFrom
\* ------------------------------------------------------------------------
Addresses == {"msg", "peer"}

\* what a.CopyFrom(b) must have made of the messages m, r being the result
Copied(m, r, a, b, Same(_, _)) ==
  IF a = b THEN r = m
  ELSE /\ Same(r[a], m[b])
       /\ r[b] = m[b]

SameInstance(x, y) == Observed(x) = Observed(y)

SameDescription(x, y) ==
  /\ x.has_bits = y.has_bits
  /\ x.authors_ = y.authors_
  /\ x.name_ = y.name_
  /\ x.description_ = y.description_
  /\ x.created_by_ = y.created_by_
  /\ x.unknown = y.unknown

\* C22: a.CopyFrom(b) on two distinct Instances or Instance.Descriptions
\* leaves a equal to b field for field (presence, lists, sense, unknown
\* fields) whatever a held, and b unchanged; a.CopyFrom(a) leaves a as it was
C22_CopyFromOverwrites ==
  \A a \in Addresses : \A b \in Addresses :
    /\ OnInstance =>
         Copied(Messages, Instance_CopyFrom(Messages, a, b), a, b,
                SameInstance)
    /\ OnDescription =>
         Copied(Messages, Description_CopyFrom(Messages, a, b), a, b,
                SameDescription)

\* an Instance that held a description was made a copy of one with a sense,
\* a decision variable and no description; the copy keeps the object of its
\* former description, cleared and absent, and would survive a copy from
\* itself
C22_Witness ==
  /\ OnInstance
  /\ last.op = "CopyFrom"
  /\ msg.sense_ # 0
  /\ Len(msg.decision_variables_) = 1
  /\ ~HasBit(msg.has_bits, 1)
  /\ peer.description_ # nullptr
  /\ peer.description_ = NewDescription
  /\ SameInstance(peer, msg)
  /\ Instance_CopyFrom(Messages, "peer", "peer").peer = peer

\* ------------------------------------------------------------------------
\* Clear
\* ------------------------------------------------------------------------
\* an Instance.Description in the default state
DescriptionIsDefault(d) ==
  /\ d.authors_ = <<>>
  /\ \A mask \in OptionalMasks : ~HasBit(d.has_bits, mask)
  /\ d.name_ = <<>>
  /\ d.description_ = <<>>
  /\ d.created_by_ = <<>>
  /\ d.unknown = <<>>
  /\ Description_InternalSerialize(d) = <<>>

\* an Instance in the default state; it may retain the objects of a former
\* description and objective
InstanceIsDefault(m) ==
  /\ m.decision_variables_ = <<>>
  /\ m.constraints_ = <<>>
  /\ ~HasBit(m.has_bits, 1)
  /\ ~HasBit(m.has_bits, 2)
  /\ m.description_ # nullptr => DescriptionIsDefault(m.description_)
  /\ m.objective_ # nullptr => Nested_InternalSerialize(m.objective_) = <<>>
  /\ m.sense_ = 0
  /\ m.unknown = <<>>
  /\ SerializeToString(m) = <<>>

\* C23: Clear() on an Instance leaves the lists empty, description and
\* objective absent with any retained nested object cleared, sense 0 and no
\* unknown fields; Clear() on an Instance.Description leaves authors empty,
\* the three has-bits clear and the strings empty; serialization then
\* writes zero bytes
C23_ClearGivesDefault ==
  \A a \in Addresses :
    /\ OnInstance => InstanceIsDefault(Instance_Clear(Messages[a]))
    /\ OnDescription => DescriptionIsDefault(Description_Clear(Messages[a]))

\* an Instance that had a description and an objective has been cleared and
\* retains the objects of both
C23_Witness ==
  /\ OnInstance
  /\ last.op = "Clear"
  /\ last.phase = "build"
  /\ msg.description_ # nullptr
  /\ msg.objective_ # nullptr
  /\ InstanceIsDefault(msg)

\* ------------------------------------------------------------------------
\* ByteSizeLong and the bytes written
\* ------------------------------------------------------------------------
\* C24: in every state of an Instance and of an Instance.Description,
\* ByteSizeLong() returns the number of bytes that _InternalSerialize then
\* writes
C24_ByteSizeIsBytesWritten ==
  \A a \in Addresses :
    /\ OnInstance =>
         \E r \in {Instance_ByteSizeLong(Messages[a])} :
           r.size = Len(Instance_InternalSerialize(Messages[a], r.cached))
    /\ OnDescription =>
         Description_ByteSizeLong(Messages[a])
           = Len(Description_InternalSerialize(Messages[a]))

\* an Instance with a description, a sense and more has been serialized
\* into as many bytes as ByteSizeLong() gives
C24_Witness ==
  /\ OnInstance
  /\ last.op = "SerializeToString"
  /\ HasBit(Serialized.has_bits, 1)
  /\ Serialized.sense_ # 0
  /\ Len(wire.bytes) > 4
  /\ Instance_ByteSizeLong(Serialized).size = Len(wire.bytes)

\* ------------------------------------------------------------------------
\* InternalSwap
\* ------------------------------------------------------------------------
\* r is the messages m with those at the addresses a and b exchanged
Exchanged(m, r, a, b) ==
  /\ r[a] = m[b]
  /\ r[b] = m[a]

\* C26: InternalSwap on two Instances or two Instance.Descriptions of the
\* same arena leaves each with exactly the former state of the other
\* (has-bits, lists, nested messages or strings, sense, unknown fields), and
\* a second swap restores both
C26_SwapExchangesAll ==
  \A a \in Addresses : \A b \in Addresses \ {a} :
    /\ OnInstance =>
         \E r \in {Instance_InternalSwap(Messages, a, b)} :
           /\ Exchanged(Messages, r, a, b)
           /\ Instance_InternalSwap(r, a, b) = Messages
    /\ OnDescription =>
         \E r \in {Description_InternalSwap(Messages, a, b)} :
           /\ Exchanged(Messages, r, a, b)
           /\ Description_InternalSwap(r, a, b) = Messages

\* an Instance with one decision variable and a sense has been swapped with
\* one into which it had been merged twice
C26_Witness ==
  /\ OnInstance
  /\ Swapped
  /\ Len(msg.decision_variables_) = 2
  /\ Len(peer.decision_variables_) = 1
  /\ peer.sense_ # 0
  /\ msg.sense_ = peer.sense_
  /\ Instance_InternalSwap(Messages, "msg", "peer").msg = peer

\* ------------------------------------------------------------------------
\* Presence and storage: the calls that set, clear, copy, merge and swap the
\* nested messages of two Instances, in any order, and the calls on the
\* linear term of a Quadratic
\* ------------------------------------------------------------------------
\* InternalSwap, after which the message swapped in is the one worked on
Do_InternalSwap_any_time ==
  /\ msg' = Instance_InternalSwap(Messages, "msg", "peer").msg
  /\ peer' = Instance_InternalSwap(Messages, "msg", "peer").peer
  /\ last' = ICall("InternalSwap", "build", TRUE)
  /\ UNCHANGED <<func, heap, arena, quad, wire>>

NextNested ==
  \/ Do_mutable_objective
  \/ Do_mutable_description
  \/ Do_clear_description
  \/ Do_clear_objective
  \/ Do_Clear
  \/ Do_CopyConstruct
  \/ Do_MergeFrom
  \/ Do_CopyFrom
  \/ Do_peer_Clear
  \/ Do_InternalSwap_any_time

InitPresence == InitInstance \/ InitQuadraticLinear

NextPresence ==
  \/ OnInstance /\ NextNested
  \/ OnQuadraticLinear /\ NextQuadraticLinear

SpecPresence == InitPresence /\ [][NextPresence]_vars

\* C25: after any sequence of construction, copy construction, Clear,
\* clear_objective, MergeFrom, CopyFrom and InternalSwap on Instances, and of
\* mutable_linear, set_allocated_linear, unsafe_arena_set_allocated_linear,
\* release_linear and unsafe_arena_release_linear on a Quadratic, a set
\* has-bit of Instance.description, Instance.objective or Quadratic.linear
\* has a non-null pointer behind it
C25_PresenceImpliesStorage ==
  /\ OnInstance =>
       \A a \in Addresses :
         /\ HasBit(Messages[a].has_bits, 1) => Messages[a].description_ # nullptr
         /\ HasBit(Messages[a].has_bits, 2) => Messages[a].objective_ # nullptr
  /\ OnQuadraticLinear => (HasBit(quad.has_bits, 1) => quad.linear_ # NULL)

\* of two Instances that were copied, merged or swapped, one has just been
\* cleared and keeps the object of its objective without presence; the other
\* has its objective present and stored
C25_Witness ==
  /\ OnInstance
  /\ last.op = "Clear"
  /\ last.phase = "build"
  /\ msg.has_bits = 0
  /\ msg.objective_ # nullptr
  /\ msg.description_ = nullptr
  /\ HasBit(peer.has_bits, 2)
  /\ peer.objective_ # nullptr
  /\ peer.objective_.body # <<>>
  /\ peer.description_ # nullptr

\* ------------------------------------------------------------------------
\* Instance_Sense_IsValid, called with an int
\* ------------------------------------------------------------------------
MaxSense == 64

\* the ends of the range of an int, short of the least by one
IntEnds == {-2147483647, 2147483647}

SenseInputs == (-MaxSense .. MaxSense) \cup IntEnds

\* SENSE_UNSPECIFIED, SENSE_MINIMIZE, SENSE_MAXIMIZE
SenseValues == {0, 1, 2}

OnSense == "value" \in DOMAIN last

InitSense ==
  /\ arena = FALSE
  /\ func = NewFunction
  /\ heap = [o \in Objs |-> FreeCell]
  /\ quad = NewQuadratic
  /\ msg = NewInstance
  /\ peer = NewInstance
  /\ wire = NoWire
  /\ \E v \in SenseInputs : last = [op |-> "input", value |-> v]

Do_Sense_IsValid ==
  /\ last.op = "input"
  /\ last' = [op |-> "IsValid", value |-> last.value,
              ret |-> Instance_Sense_IsValid(last.value)]
  /\ UNCHANGED <<func, heap, arena, quad, msg, peer, wire>>

NextSense == Do_Sense_IsValid

SpecSense == InitSense /\ [][NextSense]_vars

\* C27: Instance_Sense_IsValid(v) is true exactly when v is 0, 1 or 2, and
\* false for every other integer, the negative ones included
C27_SenseIsValid ==
  (OnSense /\ last.op = "IsValid") =>
    (last.ret <=> last.value \in SenseValues)

\* the function has been called with a negative value and returned false
C27_Witness ==
  /\ OnSense
  /\ last.op = "IsValid"
  /\ last.value < 0
  /\ ~last.ret

\* ------------------------------------------------------------------------
\* Cached sizes.  Every message keeps the size its last ByteSizeLong()
\* computed; msg is here an Instance (fields) with the sizes cached in it
\* and in the messages it holds (cached).  A message starts with a cached
\* size of 0 and no mutation changes it.
\* ------------------------------------------------------------------------
NoCachedSizes ==
  [self |-> 0, description |-> 0, objective |-> 0,
   decision_variables |-> <<>>, constraints |-> <<>>]

\* Instance::ByteSizeLong on s: the sizes of the messages it measures are
\* cached in them; an absent description or objective is not measured
Instance_ByteSizeLong_Cached(s) ==
  LET r == Instance_ByteSizeLong(s.fields)
  IN [s EXCEPT
        !.cached =
           [r.cached EXCEPT
              !.description =
                 IF HasBit(s.fields.has_bits, 1)
                   THEN @ ELSE s.cached.description,
              !.objective =
                 IF HasBit(s.fields.has_bits, 2)
                   THEN @ ELSE s.cached.objective]]

\* Instance::_InternalSerialize on s: GetCachedSize() of each nested message
Instance_InternalSerialize_Cached(s) ==
  Instance_InternalSerialize(s.fields, s.cached)

OnCached == "measured" \in DOMAIN last

\* measured: ByteSizeLong() has run since the last mutation
CCall(op, measured) == [op |-> op, measured |-> measured]

CCommit(s, w, call) ==
  /\ Fits(s.fields)
  /\ msg' = s
  /\ wire' = w
  /\ last' = call
  /\ UNCHANGED <<func, heap, arena, quad, peer>>

Mutate(m, c, op) ==
  CCommit([fields |-> m, cached |-> c], wire, CCall(op, FALSE))

Do_Cached_mutable_objective ==
  \E b \in {<<>>} \cup Bodies :
    Mutate([Instance_mutable_objective(msg.fields) EXCEPT !.objective_.body = b],
           msg.cached, "mutable_objective")

Do_Cached_clear_objective ==
  Mutate(Instance_clear_objective(msg.fields), msg.cached, "clear_objective")

Do_Cached_description_set ==
  \E field \in OptionalStrings : \E s \in InstanceStrings(field) :
    Mutate([Instance_mutable_description(msg.fields) EXCEPT
              !.description_ = Description_set(@, field, s)],
           msg.cached, "description.set")

Do_Cached_add_decision_variables ==
  \E b \in ElementBodies(Len(msg.fields.decision_variables_)) :
    Mutate(Instance_add_decision_variables(msg.fields, b),
           [msg.cached EXCEPT !.decision_variables = Append(@, 0)],
           "add_decision_variables")

Do_Cached_add_constraints ==
  \E b \in ElementBodies(Len(msg.fields.constraints_)) :
    Mutate(Instance_add_constraints(msg.fields, b),
           [msg.cached EXCEPT !.constraints = Append(@, 0)],
           "add_constraints")

Do_Cached_ByteSizeLong ==
  CCommit(Instance_ByteSizeLong_Cached(msg), wire, CCall("ByteSizeLong", TRUE))

Do_Cached_InternalSerialize ==
  CCommit(msg,
          [bytes |-> Instance_InternalSerialize_Cached(msg), from |-> "msg"],
          CCall("InternalSerialize", last.measured))

InitCached ==
  /\ arena = FALSE
  /\ func = NewFunction
  /\ heap = [o \in Objs |-> FreeCell]
  /\ quad = NewQuadratic
  /\ last = CCall("init", FALSE)
  /\ msg = [fields |-> NewInstance, cached |-> NoCachedSizes]
  /\ peer = NewInstance
  /\ wire = NoWire

NextCached ==
  \/ Do_Cached_mutable_objective
  \/ Do_Cached_clear_objective
  \/ Do_Cached_description_set
  \/ Do_Cached_add_decision_variables
  \/ Do_Cached_add_constraints
  \/ Do_Cached_ByteSizeLong
  \/ Do_Cached_InternalSerialize

SpecCached == InitCached /\ [][NextCached]_vars

\* what a reader takes for the nested messages of the bytes written, by the
\* length prefixes, is what the nested messages serialize to
PrefixesAreLengths ==
  LET m == msg.fields
  IN /\ PayloadsOnWire(wire.bytes, 1)
          = (IF HasBit(m.has_bits, 1)
               THEN <<Description_InternalSerialize(m.description_)>>
               ELSE <<>>)
     /\ PayloadsOnWire(wire.bytes, 2) = BodiesOf(m.decision_variables_)
     /\ PayloadsOnWire(wire.bytes, 3)
          = (IF HasBit(m.has_bits, 2)
               THEN <<Nested_InternalSerialize(m.objective_)>>
               ELSE <<>>)
     /\ PayloadsOnWire(wire.bytes, 4) = BodiesOf(m.constraints_)

StalePrefixWritten ==
  /\ OnCached
  /\ last.op = "InternalSerialize"
  /\ ~last.measured
  /\ ~PrefixesAreLengths

====
